---- MODULE Spec2Model ----
(***************************************************************************)
(* A model of the REDCap migration toolkit: the rule validator             *)
(* (validator.py), the PHI classifier (security.py), the field mapper      *)
(* (mapper.py) and the pipeline orchestrator (migrate.py).                 *)
(*                                                                         *)
(* Python values are records [ty, s, n, d]: ty is the Python type, s the   *)
(* characters of a str (a sequence of one-character strings) and n the     *)
(* number of an int; a Fernet token keeps its plaintext in s, its key in n *)
(* and in d how many times the plaintext was encrypted.  A dict is a       *)
(* function from its keys; a list is a sequence.  A call that can raise    *)
(* returns a record with an exc field naming the exception ("" when it     *)
(* returned).                                                              *)
(***************************************************************************)
EXTENDS Integers, Sequences, FiniteSets, TLC

VARIABLES
  vdata,      \* validator: the record list handed to validate
  vrules,     \* validator: DataValidator.validation_rules
  vout,       \* validator: what validate did (<<>> before the call)
  vchecks,    \* validator: the checks run on a results dict, in order, each
              \* with the results as it left them
  sh,         \* security: the SecurityHandler instances
  scall,      \* security: the last call made on an instance (<<>> before any)
  scalls,     \* security: how many securing calls were made
  mmap,       \* mapper: DataMapper.mapping
  msrc,       \* mapper: the records handed to map_data
  mout,       \* mapper: what each call of map_data did, in order
  pargs,      \* pipeline: the command line and the files it names
  ppc,        \* pipeline: where main is
  plog,       \* pipeline: the stage calls main made, in order
  pmig,       \* pipeline: what migrate returned (<<>> before the call)
  heap,       \* objects: the dicts that exist, each under its reference
  held,       \* objects: the record list a caller holds, as references
  fcall,      \* objects: the last call made on the held list
  cin,        \* conversions: the value a conversion is called on and its argument
  cout,       \* conversions: what the conversion gave (<<>> before the call)
  gcall,      \* migrator: the record list handed to migrate and the batch size
  gpc,        \* migrator: where migrate is
  gbatches,   \* migrator: the batches _create_batches made
  gi,         \* migrator: how many batches the loop has processed
  gresults,   \* migrator: the results dict
  gsent       \* migrator: the batches handed to _send_batch_to_redcap, in
              \* order, each with what came of it

vars == <<vdata, vrules, vout, vchecks, sh, scall, scalls, mmap, msrc, mout, pargs, ppc, plog, pmig,
          heap, held, fcall,
          cin, cout,
          gcall, gpc, gbatches, gi, gresults, gsent>>
validatorVars == <<vdata, vrules, vout, vchecks>>
securityVars == <<sh, scall, scalls>>
mapperVars == <<mmap, msrc, mout>>
pipelineVars == <<pargs, ppc, plog, pmig>>
frameVars == <<heap, held, fcall>>
conversionVars == <<cin, cout>>
migratorVars == <<gcall, gpc, gbatches, gi, gresults, gsent>>

-----------------------------------------------------------------------------
(* Bounds of the model *)

\* longest record list handed to validate
MaxRecords == 3
\* longest record list a source file holds
MaxSourceRecords == 2
\* most securing calls made in one run
MaxSecureCalls == 2
\* longest record list handed to map_data
MaxMapRecords == 2
\* longest record list the range checks are run on
MaxRangeRecords == 2
\* most calls of map_data on one mapper
MaxMapCalls == 2
\* longest record list the checks are run on in every order
MaxCheckRecords == 2

-----------------------------------------------------------------------------
(* Python values *)

PyStr(chars) == [ty |-> "str", s |-> chars, n |-> 0, d |-> 0]
PyInt(k) == [ty |-> "int", s |-> <<>>, n |-> k, d |-> 0]
PyNone == [ty |-> "none", s |-> <<>>, n |-> 0, d |-> 0]
\* float('nan'), what pandas puts in a cell a record has no value for
PyNaN == [ty |-> "nan", s |-> <<>>, n |-> 0, d |-> 0]

\* a float with an integral value (what pandas makes of an int in a float column)
PyFloat(k) == [ty |-> "float", s |-> <<>>, n |-> k, d |-> 0]

\* bool(v): '' , 0 and None are falsy; nan and every non-empty str are truthy
Truthy(v) ==
  CASE v.ty = "str" -> v.s # <<>>
    [] v.ty \in {"int", "float"} -> v.n # 0
    [] v.ty \in {"list", "dict"} -> v.n # 0
    [] v.ty = "none" -> FALSE
    [] OTHER -> TRUE

Digits == {"0", "1", "2", "3", "4", "5", "6", "7", "8", "9"}

DigitVal(c) ==
  CASE c = "0" -> 0 [] c = "1" -> 1 [] c = "2" -> 2 [] c = "3" -> 3
    [] c = "4" -> 4 [] c = "5" -> 5 [] c = "6" -> 6 [] c = "7" -> 7
    [] c = "8" -> 8 [] c = "9" -> 9

AllDigits(cs) == \A i \in 1..Len(cs) : cs[i] \in Digits

RECURSIVE ToNat(_)
ToNat(cs) ==
  IF cs = <<>> THEN 0
  ELSE 10 * ToNat(SubSeq(cs, 1, Len(cs) - 1)) + DigitVal(cs[Len(cs)])

\* str.split(sep) for a one-character separator
RECURSIVE Split(_, _)
Split(cs, sep) ==
  IF \E i \in 1..Len(cs) : cs[i] = sep
  THEN LET i == CHOOSE j \in 1..Len(cs) :
                  cs[j] = sep /\ \A k \in 1..(j - 1) : cs[k] # sep
       IN <<SubSeq(cs, 1, i - 1)>> \o Split(SubSeq(cs, i + 1, Len(cs)), sep)
  ELSE <<cs>>

Contains(cs, c) == \E i \in 1..Len(cs) : cs[i] = c

\* str.lower() of one character
Lower(c) ==
  CASE c = "A" -> "a"
    [] c = "B" -> "b"
    [] c = "C" -> "c"
    [] c = "D" -> "d"
    [] c = "E" -> "e"
    [] c = "F" -> "f"
    [] c = "G" -> "g"
    [] c = "H" -> "h"
    [] c = "I" -> "i"
    [] c = "J" -> "j"
    [] c = "K" -> "k"
    [] c = "L" -> "l"
    [] c = "M" -> "m"
    [] c = "N" -> "n"
    [] c = "O" -> "o"
    [] c = "P" -> "p"
    [] c = "Q" -> "q"
    [] c = "R" -> "r"
    [] c = "S" -> "s"
    [] c = "T" -> "t"
    [] c = "U" -> "u"
    [] c = "V" -> "v"
    [] c = "W" -> "w"
    [] c = "X" -> "x"
    [] c = "Y" -> "y"
    [] c = "Z" -> "z"
    [] OTHER -> c

-----------------------------------------------------------------------------
(* datetime.strptime(value, '%Y-%m-%d') *)

IsLeap(y) == (y % 4 = 0 /\ y % 100 # 0) \/ y % 400 = 0

DaysInMonth(y, m) ==
  IF m = 2 THEN (IF IsLeap(y) THEN 29 ELSE 28)
  ELSE IF m \in {4, 6, 9, 11} THEN 30 ELSE 31

\* %m is 1[0-2]|0[1-9]|[1-9] and %d is 3[01]|[12]\d|0[1-9]|[1-9]
OneOrTwoDigits(cs, hi) ==
  /\ Len(cs) \in {1, 2}
  /\ AllDigits(cs)
  /\ ToNat(cs) \in 1..hi

\* %b: the month of a three-letter abbreviation, letter case ignored (0: none)
MonthOfAbbr(cs) ==
  LET l == [i \in 1..Len(cs) |-> Lower(cs[i])]
  IN CASE l = <<"j", "a", "n">> -> 1 [] l = <<"f", "e", "b">> -> 2
       [] l = <<"m", "a", "r">> -> 3 [] l = <<"a", "p", "r">> -> 4
       [] l = <<"m", "a", "y">> -> 5 [] l = <<"j", "u", "n">> -> 6
       [] l = <<"j", "u", "l">> -> 7 [] l = <<"a", "u", "g">> -> 8
       [] l = <<"s", "e", "p">> -> 9 [] l = <<"o", "c", "t">> -> 10
       [] l = <<"n", "o", "v">> -> 11 [] l = <<"d", "e", "c">> -> 12
       [] OTHER -> 0

\* %Y is \d\d\d\d, and year 0 is no year
IsYear(cs) == Len(cs) = 4 /\ AllDigits(cs) /\ ToNat(cs) >= 1

\* a parse that failed
BadDate == [ok |-> FALSE, y |-> 0, m |-> 0, d |-> 0]

\* the day must exist in the month of the year
CalendarDay(y, m, d) ==
  IF d <= DaysInMonth(y, m) THEN [ok |-> TRUE, y |-> y, m |-> m, d |-> d]
  ELSE BadDate

\* the three parts of a date string, read as year, month and day: yi, mi, di
\* are the positions of the three, abbr says the month is a %b
ReadDate(p, yi, mi, di, abbr) ==
  IF /\ Len(p) = 3
     /\ IsYear(p[yi])
     /\ IF abbr THEN MonthOfAbbr(p[mi]) # 0 ELSE OneOrTwoDigits(p[mi], 12)
     /\ OneOrTwoDigits(p[di], 31)
  THEN CalendarDay(ToNat(p[yi]),
                   IF abbr THEN MonthOfAbbr(p[mi]) ELSE ToNat(p[mi]),
                   ToNat(p[di]))
  ELSE BadDate

\* datetime.strptime(chars, fmt) for the three formats the code names:
\* ok, and the year, month and day read
Strptime(cs, fmt) ==
  CASE fmt = "%Y-%m-%d" -> ReadDate(Split(cs, "-"), 1, 2, 3, FALSE)
    [] fmt = "%m/%d/%Y" -> ReadDate(Split(cs, "/"), 3, 1, 2, FALSE)
    [] fmt = "%d-%b-%Y" -> ReadDate(Split(cs, "-"), 3, 2, 1, TRUE)
    [] OTHER -> BadDate

\* a parsed date as the number yyyymmdd, ValueError if the parse failed
DateNumber(p) ==
  IF p.ok THEN [exc |-> "", date |-> 10000 * p.y + 100 * p.m + p.d]
  ELSE [exc |-> "ValueError", date |-> 0]

\* The parse of a value under '%Y-%m-%d': exc = "TypeError" for a value that
\* is no str, "ValueError" for a str that does not match or names no calendar
\* day, and otherwise the date as the number yyyymmdd (ordered as the dates
\* are).
StrptimeISO(v) ==
  IF v.ty # "str" THEN [exc |-> "TypeError", date |-> 0]
  ELSE DateNumber(Strptime(v.s, "%Y-%m-%d"))

-----------------------------------------------------------------------------
(* float(value) *)

\* A float is finite (an integer here), +inf, -inf or nan.
Fin(k) == [exc |-> "", k |-> "fin", n |-> k]
PosInf == [exc |-> "", k |-> "pinf", n |-> 0]
NegInf == [exc |-> "", k |-> "ninf", n |-> 0]
FloatNaN == [exc |-> "", k |-> "nan", n |-> 0]

\* the float of a digit string and its sign
FloatOfDigits(body, negative) ==
  IF body # <<>> /\ AllDigits(body)
  THEN Fin(IF negative THEN 0 - ToNat(body) ELSE ToNat(body))
  ELSE [exc |-> "ValueError", k |-> "fin", n |-> 0]

\* float(v).  Of the literals float() reads, the model's strings hold only
\* [+-]?digits; every other str of the model holds a character no float
\* literal has, and float() raises ValueError on it.  float(None) raises
\* TypeError.
FloatOf(v) ==
  CASE v.ty \in {"int", "float"} -> Fin(v.n)
    [] v.ty = "nan" -> FloatNaN
    [] v.ty = "str" ->
         IF v.s # <<>> /\ v.s[1] \in {"+", "-"}
         THEN FloatOfDigits(Tail(v.s), v.s[1] = "-")
         ELSE FloatOfDigits(v.s, FALSE)
    [] OTHER -> [exc |-> "TypeError", k |-> "fin", n |-> 0]

\* a < b on floats: every comparison with nan is false
FloatLt(a, b) ==
  CASE a.k = "nan" \/ b.k = "nan" -> FALSE
    [] a.k = "ninf" -> b.k # "ninf"
    [] a.k = "pinf" -> FALSE
    [] b.k = "ninf" -> FALSE
    [] b.k = "pinf" -> TRUE
    [] OTHER -> a.n < b.n

-----------------------------------------------------------------------------
(* dicts *)

\* d.get(key, default)
DictGet(d, key, default) == IF key \in DOMAIN d THEN d[key] ELSE default

\* str(i) for a natural number
RECURSIVE NatToChars(_)
NatToChars(i) ==
  LET c == CASE i % 10 = 0 -> "0" [] i % 10 = 1 -> "1" [] i % 10 = 2 -> "2"
             [] i % 10 = 3 -> "3" [] i % 10 = 4 -> "4" [] i % 10 = 5 -> "5"
             [] i % 10 = 6 -> "6" [] i % 10 = 7 -> "7" [] i % 10 = 8 -> "8"
             [] OTHER -> "9"
  IN IF i < 10 THEN <<c>> ELSE NatToChars(i \div 10) \o <<c>>

-----------------------------------------------------------------------------
(* validator.py: DataValidator *)

\* An issue message.  The code formats a string; the model keeps what the
\* string is built from: which message it is, the field and value it names,
\* and the field list it joins (a set where the code joins a set, whose order
\* Python leaves open).
Msg(kind, field, value) ==
  [kind |-> kind, field |-> field, value |-> value, fields |-> <<>>, fieldset |-> {}]
MsgFields(kind, fields) ==
  [kind |-> kind, field |-> "", value |-> PyNone, fields |-> fields, fieldset |-> {}]
MsgFieldSet(kind, fieldset) ==
  [kind |-> kind, field |-> "", value |-> PyNone, fields |-> <<>>, fieldset |-> fieldset]

\* results as validate creates it; record_issues is the dict in insertion
\* order, one entry per key; exc names an exception raised on the way.
EmptyResults ==
  [exc |-> "", errors |-> <<>>, warnings |-> <<>>, record_issues |-> <<>>]

\* record.get("record_id", f"Record_{i}"), i the 0-based position
RecordId(record, i) ==
  DictGet(record, "record_id",
          PyStr(<<"R", "e", "c", "o", "r", "d", "_">> \o NatToChars(i)))

\* an _add_record_issue that assigns the message as the whole list
AddRecordIssueReplacing(results, record_id, issue_type, message) ==
  LET ri == results.record_issues
      others == SelectSeq(ri, LAMBDA x : x.key # record_id)
  IN [results EXCEPT !.record_issues =
        Append(others,
               IF issue_type = "errors"
               THEN [key |-> record_id, errors |-> <<message>>, warnings |-> <<>>]
               ELSE [key |-> record_id, errors |-> <<>>, warnings |-> <<message>>])]

\* results["record_issues"][record_id][issue_type].append(message)
AddRecordIssue(results, record_id, issue_type, message) ==
  LET ri == results.record_issues
      known == \E k \in 1..Len(ri) : ri[k].key = record_id
      ri1 == IF known THEN ri
             ELSE Append(ri, [key |-> record_id, errors |-> <<>>, warnings |-> <<>>])
      ri2 == [k \in 1..Len(ri1) |->
                IF ri1[k].key # record_id THEN ri1[k]
                ELSE IF issue_type = "errors"
                     THEN [ri1[k] EXCEPT !.errors = Append(@, message)]
                     ELSE [ri1[k] EXCEPT !.warnings = Append(@, message)]]
  IN [results EXCEPT !.record_issues = ri2]

Raise(results, exc) == [results EXCEPT !.exc = exc]

\* _is_valid_date, _is_valid_email, _is_valid_phone: ok is the result, exc the
\* exception that escapes (each takes a str; only ValueError is caught)
IsValidDate(v) ==
  CASE v.ty # "str" -> [exc |-> "TypeError", ok |-> FALSE]
    [] OTHER -> [exc |-> "", ok |-> Strptime(v.s, "%Y-%m-%d").ok]

IsValidEmail(v) ==
  IF v.ty # "str" THEN [exc |-> "TypeError", ok |-> FALSE]
  ELSE [exc |-> "", ok |-> Contains(v.s, "@") /\ Contains(Split(v.s, "@")[2], ".")]

IsValidPhone(v) ==
  IF v.ty # "str" THEN [exc |-> "TypeError", ok |-> FALSE]
  ELSE [exc |-> "", ok |-> Len(SelectSeq(v.s, LAMBDA c : c \in Digits)) >= 10]

\* a required-fields check that reports each missing field in an error of
\* its own
RECURSIVE RequiredStepPerField(_, _, _, _)
RequiredStepPerField(record, rid, required, results) ==
  IF required = <<>> THEN results
  ELSE RequiredStepPerField(record, rid, Tail(required),
         IF Head(required) \notin DOMAIN record \/ ~Truthy(record[Head(required)])
         THEN AddRecordIssue(results, rid, "errors",
                             MsgFields("missing_required", <<Head(required)>>))
         ELSE results)

\* _check_required_fields, for one record
RequiredStep(record, rid, required, results) ==
  LET missing == SelectSeq(required,
                           LAMBDA f : f \notin DOMAIN record \/ ~Truthy(record[f]))
  IN IF missing # <<>>
     THEN AddRecordIssue(results, rid, "errors", MsgFields("missing_required", missing))
     ELSE results

\* the format check of a value, and what _check_field_formats does with it
FormatCheck(format_rule, value) ==
  CASE format_rule = "date" -> IsValidDate(value)
    [] format_rule = "email" -> IsValidEmail(value)
    [] format_rule = "phone" -> IsValidPhone(value)
    [] OTHER -> [exc |-> "", ok |-> TRUE]

FormatIssue(results, rid, field, format_rule, value, chk) ==
  IF chk.exc # "" THEN Raise(results, chk.exc)
  ELSE IF chk.ok THEN results
  ELSE AddRecordIssue(results, rid, "errors",
                      Msg(CASE format_rule = "date" -> "invalid_date_format"
                            [] format_rule = "email" -> "invalid_email_format"
                            [] OTHER -> "invalid_phone_format",
                          field, value))

\* _check_field_formats, for one record and one entry of field_formats
FormatStep(record, rid, field, format_rule, results) ==
  IF ~(field \in DOMAIN record /\ Truthy(record[field])) THEN results
  ELSE FormatIssue(results, rid, field, format_rule, record[field],
                   FormatCheck(format_rule, record[field]))

\* the first exception of a sequence of calls made in this order ("" if none)
FirstExc(excs) ==
  IF \E i \in 1..Len(excs) : excs[i] # ""
  THEN excs[CHOOSE i \in 1..Len(excs) :
              excs[i] # "" /\ \A j \in 1..(i - 1) : excs[j] = ""]
  ELSE ""

\* _check_date_ranges, for one record and one entry of date_range.  The try
\* catches ValueError alone; the two out-of-range messages read
\* range_rule['min'] / range_rule['max'], a KeyError when the bound was
\* defaulted.
DateRangeIssue(results, rid, field, range_rule, value, date_value, min_date, max_date, exc) ==
  CASE exc = "ValueError" ->
         AddRecordIssue(results, rid, "errors", Msg("date_unparseable", field, value))
    [] exc # "" /\ exc # "ValueError" -> Raise(results, exc)
    [] exc = "" /\ date_value.date < min_date.date ->
         IF "min" \in DOMAIN range_rule
         THEN AddRecordIssue(results, rid, "errors", Msg("date_before_min", field, value))
         ELSE Raise(results, "KeyError")
    [] exc = "" /\ date_value.date >= min_date.date
                /\ date_value.date > max_date.date ->
         IF "max" \in DOMAIN range_rule
         THEN AddRecordIssue(results, rid, "errors", Msg("date_after_max", field, value))
         ELSE Raise(results, "KeyError")
    [] OTHER -> results

DateRangeParsed(results, rid, field, range_rule, value, date_value, min_date, max_date) ==
  DateRangeIssue(results, rid, field, range_rule, value, date_value, min_date, max_date,
                 FirstExc(<<date_value.exc, min_date.exc, max_date.exc>>))

DateRangeStep(record, rid, field, range_rule, results) ==
  IF ~(field \in DOMAIN record /\ Truthy(record[field])) THEN results
  ELSE DateRangeParsed(results, rid, field, range_rule, record[field],
         StrptimeISO(record[field]),
         StrptimeISO(DictGet(range_rule, "min",
           PyStr(<<"1", "9", "0", "0", "-", "0", "1", "-", "0", "1">>))),
         StrptimeISO(DictGet(range_rule, "max",
           PyStr(<<"2", "1", "0", "0", "-", "1", "2", "-", "3", "1">>))))

\* _check_numeric_ranges, for one record and one entry of numeric_range
NumericRangeIssue(results, rid, field, raw, value, min_val, max_val, exc) ==
  CASE exc = "ValueError" ->
         AddRecordIssue(results, rid, "errors", Msg("numeric_unparseable", field, raw))
    [] exc # "" /\ exc # "ValueError" -> Raise(results, exc)
    [] exc = "" /\ FloatLt(value, min_val) ->
         AddRecordIssue(results, rid, "errors", Msg("below_min", field, raw))
    [] exc = "" /\ ~FloatLt(value, min_val) /\ FloatLt(max_val, value) ->
         AddRecordIssue(results, rid, "errors", Msg("above_max", field, raw))
    [] OTHER -> results

NumericRangeParsed(results, rid, field, raw, value, min_val, max_val) ==
  NumericRangeIssue(results, rid, field, raw, value, min_val, max_val,
                    FirstExc(<<value.exc, min_val.exc, max_val.exc>>))

NumericRangeStep(record, rid, field, range_rule, results) ==
  IF ~(field \in DOMAIN record /\ Truthy(record[field])) THEN results
  ELSE NumericRangeParsed(results, rid, field, record[field],
         FloatOf(record[field]),
         IF "min" \in DOMAIN range_rule THEN FloatOf(range_rule["min"]) ELSE NegInf,
         IF "max" \in DOMAIN range_rule THEN FloatOf(range_rule["max"]) ELSE PosInf)

\* One of the three per-record, per-rule checks over the whole record set:
\* for each record in order, for each entry (<<field, rule>>) of the category
\* in order; an exception ends the loops.
RECURSIVE RuleLoop(_, _, _, _, _, _)
RuleLoop(check, data, entries, i, j, results) ==
  IF results.exc # "" \/ i > Len(data) THEN results
  ELSE IF j > Len(entries) THEN RuleLoop(check, data, entries, i + 1, 1, results)
  ELSE LET record == data[i]
           rid == RecordId(record, i - 1)
           field == entries[j][1]
           rule == entries[j][2]
       IN RuleLoop(check, data, entries, i, j + 1,
            CASE check = "field_formats" -> FormatStep(record, rid, field, rule, results)
              [] check = "date_range" -> DateRangeStep(record, rid, field, rule, results)
              [] check = "numeric_range" ->
                   NumericRangeStep(record, rid, field, rule, results))

RECURSIVE RequiredLoop(_, _, _, _)
RequiredLoop(data, required, i, results) ==
  IF i > Len(data) THEN results
  ELSE RequiredLoop(data, required, i + 1,
                    RequiredStep(data[i], RecordId(data[i], i - 1), required, results))

\* Each check returns at once when its category is absent or empty.
CheckRequiredFields(data, rules, results) ==
  IF results.exc # "" \/ rules.required_fields = <<>> THEN results
  ELSE RequiredLoop(data, rules.required_fields, 1, results)

CheckFieldFormats(data, rules, results) ==
  IF results.exc # "" \/ rules.field_formats = <<>> THEN results
  ELSE RuleLoop("field_formats", data, rules.field_formats, 1, 1, results)

CheckDateRanges(data, rules, results) ==
  IF results.exc # "" \/ rules.date_range = <<>> THEN results
  ELSE RuleLoop("date_range", data, rules.date_range, 1, 1, results)

CheckNumericRanges(data, rules, results) ==
  IF results.exc # "" \/ rules.numeric_range = <<>> THEN results
  ELSE RuleLoop("numeric_range", data, rules.numeric_range, 1, 1, results)

\* record_ids of _check_data_consistency: the record_id of every record that
\* has one, in record order
RecordIds(data) ==
  LET withId == SelectSeq(data, LAMBDA r : "record_id" \in DOMAIN r)
  IN [k \in 1..Len(withId) |-> withId[k]["record_id"]]

\* duplicate_ids: the set of the ids that record_ids holds more than once
DuplicateIds(data) ==
  LET ids == RecordIds(data)
  IN {ids[k] : k \in {j \in 1..Len(ids) :
                        Cardinality({m \in 1..Len(ids) : ids[m] = ids[j]}) > 1}}

\* The orders in which a for loop may visit a set (Python fixes none).
Orderings(S) ==
  {f \in [1..Cardinality(S) -> S] : \A a, b \in 1..Cardinality(S) : f[a] = f[b] => a = b}

\* for dup_id in duplicate_ids: results["errors"].append(...)
CheckDuplicatesPerOccurrence(data, order, results) ==
  LET ids == RecordIds(data)
      dups == SelectSeq(ids, LAMBDA x : x \in DuplicateIds(data))
  IN [results EXCEPT !.errors =
        @ \o [k \in 1..Len(dups) |-> Msg("duplicate_id", "", dups[k])]]

CheckDuplicates(data, order, results) ==
  [results EXCEPT !.errors =
     @ \o [k \in 1..Len(order) |-> Msg("duplicate_id", "", order[k])]]

\* all_fields: every key of every record
AllFields(data) == UNION {DOMAIN data[i] : i \in 1..Len(data)}

\* a presence loop that counts record_id among the missing fields
RECURSIVE PresenceLoopWithId(_, _, _)
PresenceLoopWithId(data, i, results) ==
  IF i > Len(data) THEN results
  ELSE PresenceLoopWithId(data, i + 1,
         IF AllFields(data) \ DOMAIN data[i] # {}
         THEN AddRecordIssue(results, RecordId(data[i], i - 1), "warnings",
                             MsgFieldSet("fields_missing_here",
                                         AllFields(data) \ DOMAIN data[i]))
         ELSE results)

RECURSIVE PresenceLoop(_, _, _)
PresenceLoop(data, i, results) ==
  IF i > Len(data) THEN results
  ELSE LET missing_fields == (AllFields(data) \ DOMAIN data[i]) \ {"record_id"}
       IN PresenceLoop(data, i + 1,
            IF missing_fields # {}
            THEN AddRecordIssue(results, RecordId(data[i], i - 1), "warnings",
                                MsgFieldSet("fields_missing_here", missing_fields))
            ELSE results)

\* _check_data_consistency; order is the order the loop visits duplicate_ids in
CheckDataConsistency(data, order, results) ==
  IF results.exc # "" THEN results
  ELSE PresenceLoop(data, 1, CheckDuplicates(data, order, results))

RECURSIVE SumIssues(_, _)
SumIssues(record_issues, issue_type) ==
  IF record_issues = <<>> THEN 0
  ELSE Len(IF issue_type = "errors" THEN Head(record_issues).errors
           ELSE Head(record_issues).warnings)
       + SumIssues(Tail(record_issues), issue_type)

\* stats["total_errors"] and stats["total_warnings"]
TotalErrorsGlobalOnly(results) == Len(results.errors)

TotalErrors(results) ==
  Len(results.errors) + SumIssues(results.record_issues, "errors")

TotalWarnings(results) ==
  Len(results.warnings) + SumIssues(results.record_issues, "warnings")

\* the verdict of the early return: a dict with the keys is_valid and errors only
NoDataVerdictValid ==
  [exc |-> "", keys |-> {"is_valid", "errors"}, is_valid |-> TRUE,
   errors |-> <<>>, warnings |-> <<>>,
   record_issues |-> <<>>,
   stats |-> [total_records |-> 0, records_with_issues |-> 0,
              total_errors |-> 0, total_warnings |-> 0]]

NoDataVerdict ==
  [exc |-> "", keys |-> {"is_valid", "errors"}, is_valid |-> FALSE,
   errors |-> <<Msg("no_data", "", PyNone)>>, warnings |-> <<>>,
   record_issues |-> <<>>,
   stats |-> [total_records |-> 0, records_with_issues |-> 0,
              total_errors |-> 0, total_warnings |-> 0]]

\* the five checks, in the order validate runs them
RunChecks(data, rules, order) ==
  CheckDataConsistency(data, order,
    CheckNumericRanges(data, rules,
      CheckDateRanges(data, rules,
        CheckFieldFormats(data, rules,
          CheckRequiredFields(data, rules, EmptyResults)))))

\* the statistics and the verdict validate makes of the collected results
VerdictOf(data, results, total_errors) ==
  [exc |-> results.exc,
   keys |-> {"is_valid", "errors", "warnings", "record_issues", "stats"},
   is_valid |-> total_errors = 0,
   errors |-> results.errors,
   warnings |-> results.warnings,
   record_issues |-> results.record_issues,
   stats |-> [total_records |-> Len(data),
              records_with_issues |-> Len(results.record_issues),
              total_errors |-> total_errors,
              total_warnings |-> TotalWarnings(results)]]

CountAndDecide(data, results) == VerdictOf(data, results, TotalErrors(results))

\* validate(data): the verdict, or exc # "" when a check raised (validate has
\* no handler of its own).
Validate(data, rules, order) ==
  IF data = <<>> THEN NoDataVerdict
  ELSE CountAndDecide(data, RunChecks(data, rules, order))

-----------------------------------------------------------------------------
(* Ordered dicts: a record whose key order matters (the keys of a source   *)
(* record, in the order the loader gave them)                              *)

OD(keys, at) == [keys |-> keys, at |-> at]

ODHas(od, k) == k \in DOMAIN od.at

\* od[k] = v: a new key goes last
ODSet(od, k, v) ==
  [keys |-> IF ODHas(od, k) THEN od.keys ELSE Append(od.keys, k),
   at |-> [x \in DOMAIN od.at \cup {k} |-> IF x = k THEN v ELSE od.at[x]]]

-----------------------------------------------------------------------------
(* security.py: SecurityHandler *)

\* str(value)
PyStrOf(v) ==
  CASE v.ty = "int" ->
         PyStr(IF v.n < 0 THEN <<"-">> \o NatToChars(0 - v.n) ELSE NatToChars(v.n))
    [] v.ty = "float" ->
         PyStr((IF v.n < 0 THEN <<"-">> \o NatToChars(0 - v.n) ELSE NatToChars(v.n))
                 \o <<".", "0">>)
    [] v.ty = "nan" -> PyStr(<<"n", "a", "n">>)
    [] v.ty = "none" -> PyStr(<<"N", "o", "n", "e">>)
    [] OTHER -> v

\* Whether a value is a str.  A Fernet token ("tok") and the mask of one
\* ("masktok") are strs whose characters the model does not spell.
IsStr(v) == v.ty \in {"str", "tok", "masktok"}

\* cipher.encrypt(plaintext.encode()).decode() under the key of an instance.
\* The token's IV and timestamp are left out: a token is its key and its
\* plaintext.  The plaintext of the model is a str or a token this same
\* instance made (the model's inputs hold no token).
Encrypt(key, plaintext) ==
  [ty |-> "tok", s |-> plaintext.s, n |-> key, d |-> plaintext.d + 1]

\* cipher.decrypt(token.encode()).decode(): the plaintext of a token made
\* under this key; InvalidToken for every other str.
DecryptAnyKey(key, v) ==
  IF v.ty = "tok"
  THEN [exc |-> "", value |-> IF v.d = 1 THEN PyStr(v.s) ELSE [v EXCEPT !.d = @ - 1]]
  ELSE [exc |-> "InvalidToken", value |-> PyNone]

Decrypt(key, v) ==
  IF v.ty = "tok" /\ v.n = key
  THEN [exc |-> "", value |-> IF v.d = 1 THEN PyStr(v.s) ELSE [v EXCEPT !.d = @ - 1]]
  ELSE [exc |-> "InvalidToken", value |-> PyNone]

Stars(k) == [i \in 1..k |-> "*"]

\* a _redact_phi that knows no email and no phone number: the general-text
\* mask on every value
RedactPhiByLength(value) ==
  IF value.ty = "tok" THEN [value EXCEPT !.ty = "masktok"]
  ELSE IF value.ty # "str" \/ value.s = <<>> THEN value
  ELSE IF Len(value.s) > 6
  THEN PyStr(SubSeq(value.s, 1, 2) \o Stars(Len(value.s) - 4)
               \o SubSeq(value.s, Len(value.s) - 1, Len(value.s)))
  ELSE PyStr(Stars(Len(value.s)))

\* _redact_phi(value), value a str.  A token is base64 text of more than 6
\* characters that holds no '@' and starts with a letter: the general-text
\* mask.
RedactPhi(value) ==
  IF value.ty = "tok" THEN [value EXCEPT !.ty = "masktok"]
  ELSE IF value.ty # "str" \/ value.s = <<>> THEN value
  ELSE LET s == value.s
           parts == Split(s, "@")
       IN IF Contains(s, "@") /\ Contains(parts[2], ".")
          THEN LET local == parts[1]
                   username == IF Len(local) > 2
                               THEN <<local[1]>> \o Stars(Len(local) - 2)
                                      \o <<local[Len(local)]>>
                               ELSE Stars(Len(local))
               IN PyStr(username \o <<"@">> \o parts[2])
          ELSE IF \A i \in 1..Len(s) : s[i] \in Digits \cup {"-", "(", ")"}
          THEN LET clean_digits == SelectSeq(s, LAMBDA c : c \in Digits)
                   k == Len(clean_digits)
               IN IF k > 4
                  THEN PyStr(SubSeq(clean_digits, 1, 2) \o Stars(k - 4)
                               \o SubSeq(clean_digits, k - 1, k))
                  ELSE PyStr(Stars(k))
          ELSE IF Len(s) > 6
          THEN PyStr(SubSeq(s, 1, 2) \o Stars(Len(s) - 4) \o SubSeq(s, Len(s) - 1, Len(s)))
          ELSE PyStr(Stars(Len(s)))

\* the characters of a field name
FieldChars(f) ==
  CASE f = "ssn" -> <<"s", "s", "n">>
    [] f = "ssn_encrypted" -> <<"s", "s", "n", "_", "e", "n", "c", "r", "y", "p", "t", "e", "d">>
    [] f = "age" -> <<"a", "g", "e">>
    [] f = "email" -> <<"e", "m", "a", "i", "l">>
    [] f = "record_id" -> <<"r", "e", "c", "o", "r", "d", "_", "i", "d">>
    [] f = "name" -> <<"n", "a", "m", "e">>
    [] f = "id" -> <<"i", "d">>
    [] f = "dob" -> <<"d", "o", "b">>
    [] f = "tags" -> <<"t", "a", "g", "s">>
    [] f = "sex" -> <<"s", "e", "x">>
    [] f = "n" -> <<"n">>

\* the alternatives of each pattern of _detect_phi_fields, all (?i)
phi_field_patterns ==
  << { <<"n", "a", "m", "e">>,
      <<"f", "i", "r", "s", "t">>,
      <<"l", "a", "s", "t">>,
      <<"m", "i", "d", "d", "l", "e">>,
      <<"i", "n", "i", "t", "i", "a", "l">>,
      <<"f", "u", "l", "l">> },
   { <<"s", "s", "n">>,
      <<"s", "o", "c", "i", "a", "l">>,
      <<"s", "e", "c", "u", "r", "i", "t", "y">> },
   { <<"d", "o", "b">>,
      <<"b", "i", "r", "t", "h">>,
      <<"b", "i", "r", "t", "h", "d", "a", "y">> },
   { <<"a", "d", "d", "r", "e", "s", "s">>,
      <<"s", "t", "r", "e", "e", "t">>,
      <<"c", "i", "t", "y">>,
      <<"s", "t", "a", "t", "e">>,
      <<"z", "i", "p">>,
      <<"p", "o", "s", "t", "a", "l">> },
   { <<"e", "m", "a", "i", "l">>,
      <<"e", "-", "m", "a", "i", "l">> },
   { <<"p", "h", "o", "n", "e">>,
      <<"c", "e", "l", "l">>,
      <<"m", "o", "b", "i", "l", "e">>,
      <<"f", "a", "x">> },
   { <<"m", "r", "n">>,
      <<"m", "e", "d", "i", "c", "a", "l">>,
      <<"r", "e", "c", "o", "r", "d">>,
      <<"p", "a", "t", "i", "e", "n", "t">>,
      <<"i", "d">> },
   { <<"l", "i", "c", "e", "n", "s", "e">>,
      <<"d", "r", "i", "v", "e", "r">> } >>

\* whether pat occurs in cs, letter case ignored
HasSubstring(cs, pat) ==
  \E i \in 1..(Len(cs) - Len(pat) + 1) :
    \A j \in 1..Len(pat) : Lower(cs[i + j - 1]) = pat[j]

\* re.search(pattern, field) for some pattern of the list
MatchesPhiPattern(field) ==
  \E p \in 1..Len(phi_field_patterns) :
    \E alt \in phi_field_patterns[p] : HasSubstring(FieldChars(field), alt)

\* _detect_phi_fields(data): the matching keys of the first record, in key order
DetectPhiFields(data) ==
  IF data = <<>> THEN <<>>
  ELSE SelectSeq(data[1].keys, MatchesPhiPattern)

\* the loop over self.phi_fields for one record, from field j on; key = 0 is
\* cipher = None
RECURSIVE SecureFields(_, _, _, _)
SecureFields(key, phi_fields, j, secured_record) ==
  IF j > Len(phi_fields) THEN secured_record
  ELSE LET field == phi_fields[j]
       IN SecureFields(key, phi_fields, j + 1,
            IF ODHas(secured_record, field) /\ Truthy(secured_record.at[field])
            THEN LET original_value == PyStrOf(secured_record.at[field])
                 IN IF key # 0
                    THEN ODSet(ODSet(secured_record, field \o "_encrypted",
                                     Encrypt(key, original_value)),
                               field, RedactPhi(original_value))
                    ELSE ODSet(secured_record, field, RedactPhi(original_value))
            ELSE secured_record)

\* _secure_phi_data(data) on a handler: the PHI field list it leaves in
\* self.phi_fields, whether _detect_phi_fields ran, and the secured records
SecurePhiData(handler, data) ==
  LET detect == handler.phi_fields = <<>>
      phi_fields == IF detect THEN DetectPhiFields(data) ELSE handler.phi_fields
  IN [phi_fields |-> phi_fields,
      detected |-> detect,
      secured_data |-> [i \in 1..Len(data) |->
                          SecureFields(handler.key, phi_fields, 1, data[i])]]

\* load_and_secure_data: whether the loaded records go through _secure_phi_data
SecuresOnLoad(handler) == handler.secure_mode

\* decrypt_field(encrypted_value) on a handler
DecryptField(handler, encrypted_value) ==
  IF handler.key = 0 THEN [exc |-> "ValueError", value |-> PyNone]
  ELSE IF ~IsStr(encrypted_value) THEN [exc |-> "AttributeError", value |-> PyNone]
  ELSE Decrypt(handler.key, encrypted_value)

-----------------------------------------------------------------------------
(* The validator's inputs *)

P001 == PyStr(<<"P", "0", "0", "1">>)
P002 == PyStr(<<"P", "0", "0", "2">>)
Date2023 == PyStr(<<"2", "0", "2", "3", "-", "0", "3", "-", "1", "5">>)
Date1850 == PyStr(<<"1", "8", "5", "0", "-", "0", "1", "-", "0", "1">>)
Date2000 == PyStr(<<"2", "0", "0", "0", "-", "0", "1", "-", "0", "1">>)
Date2030 == PyStr(<<"2", "0", "3", "0", "-", "1", "2", "-", "3", "1">>)
NotADate == PyStr(<<"n", "/", "a">>)
Num150 == PyStr(<<"1", "5", "0">>)
Num25 == PyStr(<<"2", "5">>)
NotANumber == PyStr(<<"a", "b", "c">>)
EmailOk == PyStr(<<"a", "@", "b", ".", "c">>)
EmailBad == PyStr(<<"a", "b", ".", "c">>)

\* a dict with no key
EmptyDict == [k \in {} |-> PyNone]

\* The records validate is run on: a clean one, one sharing its record_id with
\* an early date and a low weight, one lacking fields, one lacking record_id
\* with unparseable values, one whose values are no str (what a JSON source or
\* pandas gives), one with falsy values.
ValRecords ==
  { [record_id |-> P001, dob |-> Date2023, weight |-> Num150, email |-> EmailOk],
    [record_id |-> P001, dob |-> Date1850, weight |-> Num25, email |-> EmailOk],
    [record_id |-> P002, dob |-> Date2023],
    [dob |-> NotADate, weight |-> NotANumber, email |-> EmailBad],
    [record_id |-> P002, dob |-> PyInt(2023), weight |-> PyInt(150)],
    [record_id |-> P002, dob |-> PyStr(<<>>), weight |-> PyInt(0), email |-> PyNone] }

NoRules ==
  [required_fields |-> <<>>, field_formats |-> <<>>,
   date_range |-> <<>>, numeric_range |-> <<>>]

\* The rule sets: each category alone, range rules with both bounds, with a
\* bound left out, with a null bound and with an unparseable bound, and all
\* categories together.
ValRuleSets ==
  { NoRules,
    [NoRules EXCEPT !.required_fields = <<"record_id", "weight">>],
    [NoRules EXCEPT !.field_formats = <<<<"dob", "date">>, <<"email", "email">>>>],
    [NoRules EXCEPT !.date_range = <<<<"dob", [min |-> Date2000, max |-> Date2030]>>>>],
    [NoRules EXCEPT !.date_range = <<<<"dob", EmptyDict>>>>],
    [NoRules EXCEPT !.date_range = <<<<"dob", [min |-> PyNone]>>>>],
    [NoRules EXCEPT !.date_range = <<<<"dob", [max |-> NotADate]>>>>],
    [NoRules EXCEPT !.numeric_range = <<<<"weight", [min |-> PyInt(30), max |-> PyInt(300)]>>>>],
    [NoRules EXCEPT !.numeric_range = <<<<"weight", EmptyDict>>>>],
    [NoRules EXCEPT !.numeric_range = <<<<"weight", [min |-> PyNone]>>>>],
    [NoRules EXCEPT !.numeric_range = <<<<"weight", [max |-> NotANumber]>>>>],
    [required_fields |-> <<"record_id", "dob">>,
     field_formats |-> <<<<"email", "email">>>>,
     date_range |-> <<<<"dob", [min |-> Date2000, max |-> Date2030]>>>>,
     numeric_range |-> <<<<"weight", [min |-> PyInt(30), max |-> PyInt(300)]>>>>] }

\* the record lists of at most n records
ListsUpTo(S, n) == UNION {[1..k -> S] : k \in 0..n}

-----------------------------------------------------------------------------
(* The validator: a DataValidator is built with a rule set and validate is   *)
(* called on a record list.  vout holds what the call did: <<>> before it,   *)
(* then the verdict (or the exception that left validate).                   *)

ValidatorInit ==
  /\ vrules \in ValRuleSets
  /\ vdata \in ListsUpTo(ValRecords, MaxRecords)
  /\ vout = <<>>
  /\ vchecks = <<>>

\* the validator when the run is about another component
ValidatorIdle == vrules = NoRules /\ vdata = <<>> /\ vout = <<>> /\ vchecks = <<>>

CallValidate ==
  /\ vout = <<>>
  /\ \E order \in Orderings(DuplicateIds(vdata)) :
       vout' = <<Validate(vdata, vrules, order)>>
  /\ UNCHANGED <<vdata, vrules, vchecks>>
  /\ UNCHANGED <<securityVars, mapperVars, pipelineVars, migratorVars, conversionVars, frameVars>>

ValidatorNext == CallValidate

Returned == vout # <<>> /\ vout[1].exc = ""
Raised == vout # <<>> /\ vout[1].exc # ""

-----------------------------------------------------------------------------
(* The range checks: validate run on records whose dates and numbers lie    *)
(* on, inside and outside the bounds, under rules that give both bounds,    *)
(* one bound or none.                                                       *)

Date1900 == PyStr(<<"1", "9", "0", "0", "-", "0", "1", "-", "0", "1">>)
Date2100 == PyStr(<<"2", "1", "0", "0", "-", "1", "2", "-", "3", "1">>)
Date2101 == PyStr(<<"2", "1", "0", "1", "-", "0", "1", "-", "0", "1">>)

RangeRecords ==
  { [record_id |-> P001, dob |-> Date1850, weight |-> PyInt(0)],
    [record_id |-> P002, dob |-> Date1900, weight |-> PyStr(<<"0">>)],
    [record_id |-> P001, dob |-> Date2100, weight |-> PyInt(30)],
    [record_id |-> P002, dob |-> Date2101, weight |-> PyStr(<<"3", "0", "0">>)],
    [dob |-> Date2023, weight |-> PyInt(301)],
    [record_id |-> P001, dob |-> Date2000, weight |-> NotANumber] }

RangeRuleSets ==
  { [NoRules EXCEPT !.date_range = <<<<"dob", EmptyDict>>>>],
    [NoRules EXCEPT !.date_range = <<<<"dob", [min |-> Date2000]>>>>],
    [NoRules EXCEPT !.date_range = <<<<"dob", [max |-> Date2030]>>>>],
    [NoRules EXCEPT !.numeric_range = <<<<"weight", [min |-> PyInt(30), max |-> PyInt(300)]>>>>],
    [NoRules EXCEPT !.numeric_range = <<<<"weight", [min |-> PyInt(0), max |-> PyInt(300)]>>>>],
    [NoRules EXCEPT !.date_range = <<<<"dob", [min |-> Date2000, max |-> Date2030]>>>>,
                    !.numeric_range = <<<<"weight", [min |-> Num25, max |-> Num150]>>>>] }

RangesInit ==
  /\ vrules \in RangeRuleSets
  /\ vdata \in ListsUpTo(RangeRecords, MaxRangeRecords)
  /\ vout = <<>>
  /\ vchecks = <<>>

-----------------------------------------------------------------------------
(* The five checks as steps on one results dict.  validate calls them in    *)
(* one order (ChecksOfValidate); here each is run once in any order on the   *)
(* results the checks before it left, and the verdict is made of what the   *)
(* last one leaves.  An exception leaves the run, as it leaves validate.     *)

ChecksOfValidate ==
  <<"required_fields", "field_formats", "date_range", "numeric_range",
    "data_consistency">>

\* records that several checks have an issue with: one with a bad email, a
\* low weight and no dob; one sharing its id, with an early date and an empty
\* email; one without id and email whose values do not parse; one on which
\* two checks raise; one that has the fields of others but no id
CheckRecords ==
  { [record_id |-> P001, email |-> EmailBad, weight |-> Num25],
    [record_id |-> P001, dob |-> Date1850, email |-> PyStr(<<>>)],
    [dob |-> NotADate, weight |-> NotANumber],
    [record_id |-> P002, dob |-> Date2101, email |-> PyInt(5)],
    [dob |-> Date2023, email |-> EmailOk] }

CheckRuleSets ==
  { [required_fields |-> <<"record_id", "dob", "email">>,
     field_formats |-> <<<<"email", "email">>>>,
     date_range |-> <<<<"dob", [min |-> Date2000, max |-> Date2030]>>>>,
     numeric_range |-> <<<<"weight", [min |-> PyInt(30), max |-> PyInt(300)]>>>>],
    [required_fields |-> <<"dob">>,
     field_formats |-> <<<<"email", "email">>>>,
     date_range |-> <<<<"dob", [min |-> Date2000]>>>>,
     numeric_range |-> <<>>] }

ChecksInit ==
  /\ vrules \in CheckRuleSets
  /\ vdata \in ListsUpTo(CheckRecords, MaxCheckRecords) \ {<<>>}
  /\ vout = <<>>
  /\ vchecks = <<>>

\* the results dict as the checks run so far left it
ResultsSoFar ==
  IF vchecks = <<>> THEN EmptyResults ELSE vchecks[Len(vchecks)].results

\* self._check_...(data, results)
ApplyCheck(check, data, rules, order, results) ==
  CASE check = "required_fields" -> CheckRequiredFields(data, rules, results)
    [] check = "field_formats" -> CheckFieldFormats(data, rules, results)
    [] check = "date_range" -> CheckDateRanges(data, rules, results)
    [] check = "numeric_range" -> CheckNumericRanges(data, rules, results)
    [] check = "data_consistency" -> CheckDataConsistency(data, order, results)

RunCheck(check, order) ==
  /\ vout = <<>>
  /\ ResultsSoFar.exc = ""
  /\ \A k \in 1..Len(vchecks) : vchecks[k].check # check
  /\ vchecks' = Append(vchecks,
                       [check |-> check,
                        results |-> ApplyCheck(check, vdata, vrules, order,
                                               ResultsSoFar)])
  /\ UNCHANGED <<vdata, vrules, vout>>
  /\ UNCHANGED <<securityVars, mapperVars, pipelineVars, migratorVars, conversionVars, frameVars>>

RunRequiredFields == RunCheck("required_fields", <<>>)
RunFieldFormats == RunCheck("field_formats", <<>>)
RunDateRanges == RunCheck("date_range", <<>>)
RunNumericRanges == RunCheck("numeric_range", <<>>)
RunDataConsistency ==
  \E order \in Orderings(DuplicateIds(vdata)) : RunCheck("data_consistency", order)

\* the statistics and the validity flag, once every check ran or one raised
DecideVerdict ==
  /\ vout = <<>>
  /\ Len(vchecks) = Len(ChecksOfValidate) \/ ResultsSoFar.exc # ""
  /\ vout' = <<CountAndDecide(vdata, ResultsSoFar)>>
  /\ UNCHANGED <<vdata, vrules, vchecks>>
  /\ UNCHANGED <<securityVars, mapperVars, pipelineVars, migratorVars, conversionVars, frameVars>>

ChecksNext ==
  \/ RunRequiredFields
  \/ RunFieldFormats
  \/ RunDateRanges
  \/ RunNumericRanges
  \/ RunDataConsistency
  \/ DecideVerdict

-----------------------------------------------------------------------------
(* The classifier's inputs *)

Ssn == PyStr(<<"1", "2", "3", "-", "4", "5", "-", "6", "7", "8", "9">>)
EmailJo == PyStr(<<"j", "o", "e", "@", "x", ".", "i", "o">>)

\* The source records: one with a PHI field and a field that is none, one
\* that has a column named like the sibling field, one whose first key is no
\* PHI and whose PHI value is falsy.
SourceRecords ==
  { OD(<<"ssn", "age">>, [ssn |-> Ssn, age |-> PyInt(40)]),
    OD(<<"ssn", "ssn_encrypted">>, [ssn |-> Ssn, ssn_encrypted |-> PyStr(<<"o", "l", "d">>)]),
    OD(<<"age", "ssn">>, [age |-> PyInt(7), ssn |-> PyStr(<<>>)]) }

\* phi_fields as given to the constructor (<<>>: none given)
PhiFieldLists ==
  { <<>>, <<"ssn">>, <<"ssn", "ssn_encrypted">>, <<"ssn_encrypted", "ssn">>, <<"age">> }

\* Two instances: "a" is built in either mode with any of the field lists,
\* "b" in secure mode with an explicit list (the other instance of a
\* ciphertext made elsewhere).
Handlers == {"a", "b"}

\* Fernet.generate_key(): 32 random bytes, taken to differ between instances
GenerateKey(h) == IF h = "a" THEN 1 ELSE 2

\* SecurityHandler(secure_mode, phi_fields).  first_phi and detect_runs are
\* history: the PHI field list the first securing call left (in a one-element
\* sequence) and how many times _detect_phi_fields ran.
NewHandler(h, secure_mode, phi_fields) ==
  [secure_mode |-> secure_mode,
   phi_fields |-> phi_fields,
   key |-> IF secure_mode THEN GenerateKey(h) ELSE 0,
   given |-> phi_fields # <<>>,
   first_phi |-> <<>>,
   detect_runs |-> 0]

\* A call: the instance it was made on, the exception it raised, and for a
\* securing call its records in and out and the PHI field list it used, for
\* decrypt_field its argument, its result and the instance whose securing
\* call returned the argument.
NoCall ==
  [op |-> "", h |-> "", exc |-> "", input |-> <<>>, output |-> <<>>,
   phi |-> <<>>, arg |-> PyNone, value |-> PyNone, by |-> ""]

SecurityInit ==
  /\ \E m \in BOOLEAN, p \in PhiFieldLists :
       sh = [h \in Handlers |-> IF h = "a" THEN NewHandler(h, m, p)
                                ELSE NewHandler(h, TRUE, <<"ssn">>)]
  /\ scall = NoCall
  /\ scalls = 0

\* the classifier when the run is about another component
SecurityIdle ==
  /\ sh = [h \in Handlers |-> NewHandler(h, FALSE, <<>>)]
  /\ scall = NoCall
  /\ scalls = 0

\* the handler after _secure_phi_data ran on it
AfterSecuring(handler, r) ==
  [handler EXCEPT !.phi_fields = r.phi_fields,
                  !.first_phi = IF @ = <<>> THEN <<r.phi_fields>> ELSE @,
                  !.detect_runs = IF r.detected THEN @ + 1 ELSE @]

\* load_and_secure_data(source_path): the loader raises on an extension it
\* does not know (the exception is logged and raised again); the records go
\* through _secure_phi_data in secure mode only.
LoadAndSecure(handler, h, ext, records, r) ==
  IF ext \notin {".csv", ".xls", ".xlsx", ".json"}
  THEN [call |-> [NoCall EXCEPT !.op = "load_and_secure_data", !.h = h,
                                !.exc = "ValueError"],
        handler |-> handler]
  ELSE IF SecuresOnLoad(handler)
  THEN [call |-> [NoCall EXCEPT !.op = "load_and_secure_data", !.h = h,
                                !.input = records, !.output = r.secured_data,
                                !.phi = r.phi_fields],
        handler |-> AfterSecuring(handler, r)]
  ELSE [call |-> [NoCall EXCEPT !.op = "load_and_secure_data", !.h = h,
                                !.input = records, !.output = records,
                                !.phi = handler.phi_fields],
        handler |-> handler]

LoadAndSecureResult(handler, h, ext, records) ==
  LoadAndSecure(handler, h, ext, records, SecurePhiData(handler, records))

LoadAndSecureData(h, ext, records) ==
  /\ scalls < MaxSecureCalls
  /\ scall.op # "decrypt_field"
  /\ scalls' = scalls + 1
  /\ scall' = LoadAndSecureResult(sh[h], h, ext, records).call
  /\ sh' = [sh EXCEPT ![h] = LoadAndSecureResult(sh[h], h, ext, records).handler]
  /\ UNCHANGED <<validatorVars, mapperVars, pipelineVars, migratorVars, conversionVars, frameVars>>

\* _secure_phi_data(data) called on its own
CallSecurePhiData(h, records) ==
  /\ scalls < MaxSecureCalls
  /\ scall.op # "decrypt_field"
  /\ scalls' = scalls + 1
  /\ LET r == SecurePhiData(sh[h], records)
     IN /\ scall' = [NoCall EXCEPT !.op = "_secure_phi_data", !.h = h,
                                  !.input = records, !.output = r.secured_data,
                                  !.phi = r.phi_fields]
        /\ sh' = [sh EXCEPT ![h] = AfterSecuring(@, r)]
  /\ UNCHANGED <<validatorVars, mapperVars, pipelineVars, migratorVars, conversionVars, frameVars>>

\* the values a caller has at hand to decrypt: those of the records the last
\* securing call returned (tokens, masks, strs and values that are no str)
DecryptArgs ==
  UNION {{scall.output[i].at[k] : k \in DOMAIN scall.output[i].at} :
           i \in 1..Len(scall.output)}

\* decrypt_field(encrypted_value)
CallDecryptField(h, arg) ==
  /\ scall.op \in {"load_and_secure_data", "_secure_phi_data"}
  /\ LET r == DecryptField(sh[h], arg)
     IN scall' = [NoCall EXCEPT !.op = "decrypt_field", !.h = h, !.exc = r.exc,
                               !.arg = arg, !.value = r.value, !.by = scall.h]
  /\ UNCHANGED <<sh, scalls>>
  /\ UNCHANGED <<validatorVars, mapperVars, pipelineVars, migratorVars, conversionVars, frameVars>>

\* A run makes securing calls and ends with decrypt calls (decrypt_field
\* changes nothing of an instance, so no state is lost).
SecurityNext ==
  \/ \E h \in Handlers, records \in ListsUpTo(SourceRecords, MaxSourceRecords) :
       LoadAndSecureData(h, ".json", records)
  \/ LoadAndSecureData("a", ".txt", <<>>)
  \/ \E records \in ListsUpTo(SourceRecords, MaxSourceRecords) :
       CallSecurePhiData("a", records)
  \/ \E h \in Handlers, arg \in DecryptArgs \cup {NotANumber} :
       CallDecryptField(h, arg)

-----------------------------------------------------------------------------
(* mapper.py: DataMapper.  Values a mapped record can hold beside those of   *)
(* the source: a list (a checkbox cell given as a JSON array of strs) and    *)
(* the dict _format_checkbox returns.  Both are kept flat in s, the items    *)
(* separated by ListSep, with n the number of items.                         *)

ListSep == ";;"

RECURSIVE JoinItems(_)
JoinItems(items) ==
  IF items = <<>> THEN <<>>
  ELSE IF Len(items) = 1 THEN items[1]
  ELSE items[1] \o <<ListSep>> \o JoinItems(Tail(items))

\* a list of strs, each the sequence of its characters
PyList(items) == [ty |-> "list", s |-> JoinItems(items), n |-> Len(items), d |-> 0]

ListItems(v) == IF v.n = 0 THEN <<>> ELSE Split(v.s, ListSep)

\* a dict of str to '1'/'0', from its entries <<code, bit>> in order
PyDict(entries) ==
  [ty |-> "dict",
   s |-> JoinItems([i \in 1..Len(entries) |-> entries[i][1] \o <<"=>", entries[i][2]>>]),
   n |-> Len(entries), d |-> 0]

\* pd.isna(value) as a condition: None and nan are missing; of a list it is
\* an array, whose truth value is that of its one element and raises
\* ValueError when it has two or more (the lists of the model are not empty)
IsNa(v) ==
  CASE v.ty \in {"none", "nan"} -> [exc |-> "", na |-> TRUE]
    [] v.ty = "list" /\ v.n >= 2 -> [exc |-> "ValueError", na |-> FALSE]
    [] OTHER -> [exc |-> "", na |-> FALSE]

\* value == '' (no list, number or None equals a str)
IsEmptyStr(v) == v.ty = "str" /\ v.s = <<>>

\* str.strip() of the blanks of the model
RECURSIVE Strip(_)
Strip(cs) ==
  IF cs # <<>> /\ cs[1] = " " THEN Strip(Tail(cs))
  ELSE IF cs # <<>> /\ cs[Len(cs)] = " " THEN Strip(SubSeq(cs, 1, Len(cs) - 1))
  ELSE cs

\* n in decimal, zero-padded to width
Pad(n, width) ==
  [i \in 1..(width - Len(NatToChars(n))) |-> "0"] \o NatToChars(n)

\* dt.strftime('%Y-%m-%d'), the years of the model having four digits
Strftime(p) ==
  PyStr(Pad(p.y, 4) \o <<"-">> \o Pad(p.m, 2) \o <<"-">> \o Pad(p.d, 2))

-----------------------------------------------------------------------------
(* pd.DataFrame(source_data) of a list of dicts, and the rows iterrows gives *)

\* the columns: the keys of the records in the order first seen
RECURSIVE FrameColumns(_, _, _)
FrameColumns(source, i, cols) ==
  IF i > Len(source) THEN cols
  ELSE FrameColumns(source, i + 1,
         cols \o SelectSeq(source[i].keys,
                           LAMBDA k : \A j \in 1..Len(cols) : cols[j] # k))

\* the cell of record i under column c before dtype inference: nan where the
\* record has no such key
RawCell(source, i, c) == IF ODHas(source[i], c) THEN source[i].at[c] ELSE PyNaN

\* the dtype inferred for a column: int64 when every cell is an int, float64
\* when every cell is a number, None or nan and one of them is a float or
\* nan, object otherwise (a column of None alone stays object)
ColumnDtype(source, c) ==
  IF \A i \in 1..Len(source) : RawCell(source, i, c).ty = "int" THEN "int64"
  ELSE IF /\ \A i \in 1..Len(source) :
                RawCell(source, i, c).ty \in {"int", "float", "nan", "none"}
          /\ \E i \in 1..Len(source) :
                RawCell(source, i, c).ty \in {"int", "float", "nan"}
  THEN "float64"
  ELSE "object"

\* a value as a float64: None becomes nan
AsFloat(v) ==
  CASE v.ty = "int" -> PyFloat(v.n)
    [] v.ty = "none" -> PyNaN
    [] OTHER -> v

\* iterrows: a row is a Series of one dtype, float64 when no column is object
\* and one is float64
RowIsFloat(source, cols) ==
  /\ \A j \in 1..Len(cols) : ColumnDtype(source, cols[j]) # "object"
  /\ \E j \in 1..Len(cols) : ColumnDtype(source, cols[j]) = "float64"

FrameCell(source, cols, i, c) ==
  IF ColumnDtype(source, c) = "float64" \/ RowIsFloat(source, cols)
  THEN AsFloat(RawCell(source, i, c))
  ELSE RawCell(source, i, c)

\* the frame: its columns and, per record, the row as column -> value
FrameOf(source, cols) ==
  [columns |-> cols,
   rows |-> [i \in 1..Len(source) |->
               [c \in {cols[j] : j \in 1..Len(cols)} |-> FrameCell(source, cols, i, c)]]]

DataFrame(source) == FrameOf(source, FrameColumns(source, 1, <<>>))

\* field in row: a Series holds its index, the columns of the frame
InRow(frame, field) == \E j \in 1..Len(frame.columns) : frame.columns[j] = field

-----------------------------------------------------------------------------
(* The conversions of _map_field.  Each gives exc, the exception that leaves *)
(* it ("" if none), and value, what it returns.                              *)

Returns(v) == [exc |-> "", value |-> v]
Raises(exc) == [exc |-> exc, value |-> PyNone]

\* datetime.strptime(str(value), fmt): the str of a number, of None, of a
\* list or of a token matches none of the three formats
TryStrptime(value, fmt) ==
  IF value.ty = "str" THEN Strptime(value.s, fmt) ELSE BadDate

\* the date of the first of the common formats that parses the value
FirstFormat(value, p1, p2, p3) ==
  IF p1.ok THEN Strftime(p1)
  ELSE IF p2.ok THEN Strftime(p2)
  ELSE IF p3.ok THEN Strftime(p3)
  ELSE value

GivenFormat(value, p) == IF p.ok THEN Strftime(p) ELSE value

\* _format_date(value, date_format); date_format is "" when the rule has none
FormatDateOf(value, date_format, na) ==
  IF na.exc # "" THEN Raises(na.exc)
  ELSE IF na.na \/ IsEmptyStr(value) THEN Returns(PyStr(<<>>))
  ELSE IF date_format # ""
  THEN Returns(GivenFormat(value, TryStrptime(value, date_format)))
  ELSE Returns(FirstFormat(value, TryStrptime(value, "%Y-%m-%d"),
                           TryStrptime(value, "%m/%d/%Y"),
                           TryStrptime(value, "%d-%b-%Y")))

FormatDate(value, date_format) == FormatDateOf(value, date_format, IsNa(value))

\* the values a checkbox cell names: the parts of a str split on ',' and
\* stripped, the items of a list, the value alone otherwise (a number, which
\* equals no str)
CheckboxValues(value) ==
  CASE value.ty = "str" ->
         {Strip(Split(value.s, ",")[i]) : i \in 1..Len(Split(value.s, ","))}
    [] value.ty = "list" -> {ListItems(value)[i] : i \in 1..value.n}
    [] OTHER -> {}

\* options is the dict of the rule in its order: entries <<code, label>>
CheckboxDict(options, values) ==
  PyDict([i \in 1..Len(options) |->
            <<options[i][1],
              IF options[i][2] \in values \/ options[i][1] \in values
              THEN "1" ELSE "0">>])

\* _format_checkbox(value, options)
FormatCheckboxOf(value, options, na) ==
  IF na.exc # "" THEN Raises(na.exc)
  ELSE IF na.na THEN Returns(PyDict(<<>>))
  ELSE Returns(CheckboxDict(options, CheckboxValues(value)))

FormatCheckbox(value, options) == FormatCheckboxOf(value, options, IsNa(value))

\* label == value or code == value
OptionMatches(option, value) ==
  value.ty = "str" /\ (option[2] = value.s \/ option[1] = value.s)

\* _format_radio(value, options): the code of the first option, in the
\* order of the dict, whose label or code equals the value
FormatRadioOf(value, options, na) ==
  IF na.exc # "" THEN Raises(na.exc)
  ELSE IF na.na \/ IsEmptyStr(value) THEN Returns(PyStr(<<>>))
  ELSE IF \E i \in 1..Len(options) : OptionMatches(options[i], value)
  THEN Returns(PyStr(options[CHOOSE i \in 1..Len(options) :
                       /\ OptionMatches(options[i], value)
                       /\ \A j \in 1..(i - 1) : ~OptionMatches(options[j], value)][1]))
  ELSE Returns(PyStr(<<>>))

FormatRadio(value, options) == FormatRadioOf(value, options, IsNa(value))

\* _format_dropdown(value, options)
FormatDropdown(value, options) == FormatRadio(value, options)

\* the number eval reads in the text of a cell
FloatOfCell(v) ==
  CASE v.ty = "int" -> [ok |-> TRUE, float |-> FALSE, n |-> v.n]
    [] v.ty = "float" -> [ok |-> TRUE, float |-> TRUE, n |-> v.n]
    [] v.ty = "str" /\ v.s # <<>> /\ AllDigits(v.s) /\ (Len(v.s) = 1 \/ v.s[1] # "0") ->
         [ok |-> TRUE, float |-> FALSE, n |-> ToNat(v.s)]
    [] OTHER -> [ok |-> FALSE, float |-> FALSE, n |-> 0]

AddTerm(acc, term) ==
  [ok |-> acc.ok /\ term.ok, float |-> acc.float \/ term.float, n |-> acc.n + term.n]

\* A formula of the model is a sum of two or more terms, one of them an
\* integer literal: a sequence of terms, each a field reference {field} or a
\* literal, written with '+' between them.
\* eval of the text after substitution: a reference to a column becomes
\* str(row[field]), which is a number for an int, a float or a str of
\* digits and otherwise text eval fails on (nan, None, a name, a list of
\* strs); a reference to no column stays '{field}', a set of an unbound
\* name.  term gives ok and the number.
TermValue(frame, row, term) ==
  IF term.kind = "lit" THEN [ok |-> TRUE, float |-> FALSE, n |-> term.n]
  ELSE IF ~InRow(frame, term.field) THEN [ok |-> FALSE, float |-> FALSE, n |-> 0]
  ELSE FloatOfCell(row[term.field])

RECURSIVE SumTerms(_, _, _, _)
SumTerms(frame, row, formula, acc) ==
  IF formula = <<>> \/ ~acc.ok THEN acc
  ELSE SumTerms(frame, row, Tail(formula),
                AddTerm(acc, TermValue(frame, row, formula[1])))

\* _apply_calculation(row, formula): '' for no formula and for every failure
ApplyCalculationOf(total) ==
  IF ~total.ok THEN Returns(PyStr(<<>>))
  ELSE IF total.float THEN Returns(PyStrOf(PyFloat(total.n)))
  ELSE Returns(PyStrOf(PyInt(total.n)))

ApplyCalculation(frame, row, formula) ==
  IF formula = <<>> THEN Returns(PyStr(<<>>))
  ELSE ApplyCalculationOf(SumTerms(frame, row, formula,
                                   [ok |-> TRUE, float |-> FALSE, n |-> 0]))

-----------------------------------------------------------------------------
(* _map_field and map_data.  A field rule is the dict of the mapping file;   *)
(* a mapped record is a dict in the order its keys were set.                 *)

\* the key None, where a rule names no target_field (no field is named so)
NoneKey == "<None>"

EmptyOD == OD(<<>>, [k \in {} |-> PyNone])

\* the transformation _map_field applies for the rule's field_type
Transform(field_map, frame, row, value) ==
  CASE DictGet(field_map, "field_type", "text") = "date" ->
         FormatDate(value, DictGet(field_map, "date_format", ""))
    [] DictGet(field_map, "field_type", "text") = "checkbox" ->
         FormatCheckbox(value, DictGet(field_map, "options", <<>>))
    [] DictGet(field_map, "field_type", "text") = "radio" ->
         FormatRadio(value, DictGet(field_map, "options", <<>>))
    [] DictGet(field_map, "field_type", "text") = "dropdown" ->
         FormatDropdown(value, DictGet(field_map, "options", <<>>))
    [] DictGet(field_map, "field_type", "text") = "calculated" ->
         ApplyCalculation(frame, row, DictGet(field_map, "formula", <<>>))
    [] OTHER -> Returns(value)

\* target_record[target_field] = value, unless the transformation raised
SetTarget(res, target_field, transformed) ==
  IF transformed.exc # "" THEN [res EXCEPT !.exc = transformed.exc]
  ELSE [res EXCEPT !.record = ODSet(@, target_field, transformed.value)]

\* _map_field(field_map, source_row, target_record); res is the target
\* record so far and the exception raised on the way
MapField(field_map, frame, row, res) ==
  IF res.exc # "" THEN res
  ELSE IF "source_field" \notin DOMAIN field_map THEN res
  ELSE IF ~InRow(frame, field_map.source_field) THEN res
  ELSE SetTarget(res, DictGet(field_map, "target_field", NoneKey),
                 Transform(field_map, frame, row, row[field_map.source_field]))

RECURSIVE MapFields(_, _, _, _, _)
MapFields(fields, j, frame, row, res) ==
  IF j > Len(fields) THEN res
  ELSE MapFields(fields, j + 1, frame, row, MapField(fields[j], frame, row, res))

\* one pass of the loop of map_data over a row that has the identifier
MapRow(mapping, frame, row) ==
  MapFields(mapping.fields, 1, frame, row,
            [exc |-> "",
             record |-> ODSet(EmptyOD, "record_id",
                              PyStrOf(row[mapping.record_id_field]))])

\* a loop that puts each mapped record in front of those mapped before it
PrependMapped(acc, res) ==
  IF res.exc # "" THEN [acc EXCEPT !.exc = res.exc]
  ELSE [acc EXCEPT !.records = <<res.record>> \o @]

\* redcap_data.append(record), unless the pass raised
AppendMapped(acc, res) ==
  IF res.exc # "" THEN [acc EXCEPT !.exc = res.exc]
  ELSE [acc EXCEPT !.records = Append(@, res.record)]

\* the loop over source_data.iterrows(); a row without the identifier field
\* is skipped
RECURSIVE MapRows(_, _, _, _)
MapRows(mapping, frame, i, acc) ==
  IF acc.exc # "" \/ i > Len(frame.rows) THEN acc
  ELSE IF ~InRow(frame, mapping.record_id_field)
  THEN MapRows(mapping, frame, i + 1, acc)
  ELSE MapRows(mapping, frame, i + 1,
               AppendMapped(acc, MapRow(mapping, frame, frame.rows[i])))

\* map_data(source_data), source_data a list of dicts: the mapped records,
\* or the exception it logs and raises again
MapData(mapping, source) ==
  IF mapping.source_type # "csv" THEN [exc |-> "ValueError", records |-> <<>>]
  ELSE MapRows(mapping, DataFrame(source), 1, [exc |-> "", records |-> <<>>])

-----------------------------------------------------------------------------
(* The mapper's inputs *)

Male == <<"M", "a", "l", "e">>
Female == <<"F", "e", "m", "a", "l", "e">>
SexOptions == << <<<<"1">>, Male>>, <<<<"2">>, Female>> >>
TagOptions == << <<<<"a">>, <<"x">>>>, <<<<"b">>, <<"y">>>> >>

\* source records: one with every field, one without the identifier, one of
\* numbers alone, one with a list and a None, and the empty record
MapRecords ==
  { OD(<<"id", "dob", "sex">>,
       [id |-> P001, dob |-> PyStr(<<"0", "1", "/", "1", "5", "/", "2", "0", "2", "0">>),
        sex |-> PyStr(Male)]),
    OD(<<"dob", "tags">>,
       [dob |-> NotADate, tags |-> PyStr(<<"x", ",", " ", "b">>)]),
    OD(<<"id", "n">>, [id |-> PyInt(7), n |-> PyInt(3)]),
    OD(<<"id", "tags", "sex">>,
       [id |-> P002, tags |-> PyList(<< <<"y">>, <<"z">> >>), sex |-> PyNone]),
    EmptyOD }

\* mappings: the typed rules, a calculated and an untyped rule beside a rule
\* with no source_field, a source type map_data does not convert, and an
\* identifier field no record has
Mappings ==
  { [source_type |-> "csv", record_id_field |-> "id",
     fields |-> << [source_field |-> "sex", target_field |-> "gender",
                    field_type |-> "radio", options |-> SexOptions],
                   [source_field |-> "dob", target_field |-> "birth_date",
                    field_type |-> "date"],
                   [source_field |-> "tags", target_field |-> "tags",
                    field_type |-> "checkbox", options |-> TagOptions] >>],
    [source_type |-> "csv", record_id_field |-> "id",
     fields |-> << [source_field |-> "n", target_field |-> "total",
                    field_type |-> "calculated",
                    formula |-> << [kind |-> "ref", field |-> "n", n |-> 0],
                                   [kind |-> "lit", field |-> "", n |-> 1] >>],
                   [source_field |-> "dob", target_field |-> "dob"],
                   [target_field |-> "site"],
                   [source_field |-> "sex", target_field |-> "sex_code",
                    field_type |-> "dropdown", options |-> SexOptions] >>],
    [source_type |-> "json", record_id_field |-> "id", fields |-> <<>>],
    [source_type |-> "csv", record_id_field |-> "mrn", fields |-> <<>>] }

NoMapping == [source_type |-> "csv", record_id_field |-> "record_id", fields |-> <<>>]

-----------------------------------------------------------------------------
(* The mapper: a DataMapper holds a mapping and map_data is called on a      *)
(* record list.  mout holds what the call did.                               *)

MapperInit ==
  /\ mmap \in Mappings
  /\ msrc \in ListsUpTo(MapRecords, MaxMapRecords)
  /\ mout = <<>>

\* the mapper when the run is about another component
MapperIdle == mmap = NoMapping /\ msrc = <<>> /\ mout = <<>>

\* a map_data that uses its field rules up: it pops each rule off the
\* mapping as it reads it
MapDataPoppingRules(mapping, source) ==
  [result |-> MapData(mapping, source),
   mapping |-> [mapping EXCEPT !.fields = <<>>]]

\* mapper.map_data(source_data) as a call on the DataMapper: what it gives
\* the caller and what it leaves in self.mapping; map_data and the methods
\* it calls read self.mapping and the rules and assign to neither (the
\* formula _apply_calculation substitutes into is its own local name)
MapDataCall(mapping, source) ==
  [result |-> MapData(mapping, source), mapping |-> mapping]

\* a mapper is called up to MaxMapCalls times on the same record list; mout
\* holds what each call gave, in order
CallMapData ==
  /\ Len(mout) < MaxMapCalls
  /\ mout' = Append(mout, MapDataCall(mmap, msrc).result)
  /\ mmap' = MapDataCall(mmap, msrc).mapping
  /\ UNCHANGED msrc
  /\ UNCHANGED <<validatorVars, securityVars, pipelineVars, migratorVars, conversionVars, frameVars>>

MapperNext == CallMapData

-----------------------------------------------------------------------------
(* migrator.py: DataMigrator.migrate.  What REDCap answers is not the        *)
(* program's: outcomes says, per batch, whether _send_batch_to_redcap        *)
(* reported success (it catches every exception of the request itself).      *)

DefaultBatchSize == 100

\* a _create_batches that makes full batches alone
CreateBatchesFullOnly(data, batch_size) ==
  [k \in 1..(Len(data) \div batch_size) |->
     SubSeq(data, (k - 1) * batch_size + 1, k * batch_size)]

\* _create_batches(data, batch_size)
RECURSIVE CreateBatches(_, _)
CreateBatches(data, batch_size) ==
  IF data = <<>> THEN <<>>
  ELSE IF Len(data) <= batch_size THEN <<data>>
  ELSE <<SubSeq(data, 1, batch_size)>>
         \o CreateBatches(SubSeq(data, batch_size + 1, Len(data)), batch_size)

\* r.get("record_id", f"Record_Index_{batch.index(r)}") for the records of a
\* batch
FailedRecordIds(batch) ==
  [k \in 1..Len(batch) |->
     DictGet(batch[k], "record_id",
             PyStr(<<"R", "e", "c", "o", "r", "d", "_", "I", "n", "d", "e", "x", "_">>
                     \o NatToChars((CHOOSE j \in 1..k :
                                      /\ batch[j] = batch[k]
                                      /\ \A l \in 1..(j - 1) : batch[l] # batch[k]) - 1)))]

\* the results dict before the first batch
NewMigration ==
  [keys |-> {"start_time", "records_processed", "records_success", "records_failed",
             "batches_processed", "batches_success", "batches_failed",
             "failed_records", "success", "success_rate", "end_time",
             "elapsed_seconds"},
   records_processed |-> 0, records_success |-> 0, records_failed |-> 0,
   batches_processed |-> 0, batches_success |-> 0, batches_failed |-> 0,
   failed_records |-> <<>>, success |-> TRUE]

\* a pass of the loop that counts a failed batch and not its records
MigrateBatchCountingBatches(results, batch, ok) ==
  [results EXCEPT
     !.batches_processed = @ + 1,
     !.records_processed = @ + Len(batch),
     !.records_success = IF ok THEN @ + Len(batch) ELSE @,
     !.batches_success = IF ok THEN @ + 1 ELSE @,
     !.batches_failed = IF ok THEN @ ELSE @ + 1]

\* one pass of the loop over the batches
MigrateBatch(results, batch, ok) ==
  [results EXCEPT
     !.batches_processed = @ + 1,
     !.records_processed = @ + Len(batch),
     !.records_success = IF ok THEN @ + Len(batch) ELSE @,
     !.batches_success = IF ok THEN @ + 1 ELSE @,
     !.records_failed = IF ok THEN @ ELSE @ + Len(batch),
     !.batches_failed = IF ok THEN @ ELSE @ + 1,
     !.failed_records = IF ok THEN @ ELSE @ \o FailedRecordIds(batch)]

RECURSIVE MigrateLoop(_, _, _, _)
MigrateLoop(batches, outcomes, i, results) ==
  IF i > Len(batches) THEN results
  ELSE MigrateLoop(batches, outcomes, i + 1,
                   MigrateBatch(results, batches[i], outcomes[i]))

\* results["success"] = results["batches_failed"] == 0
FinalStatistics(results) == [results EXCEPT !.success = results.batches_failed = 0]

\* migrate(data): with no data, a dict of success and message alone
Migrate(data, batch_size, outcomes) ==
  IF data = <<>>
  THEN [NewMigration EXCEPT !.keys = {"success", "message"}, !.success = FALSE]
  ELSE FinalStatistics(MigrateLoop(CreateBatches(data, batch_size), outcomes, 1,
                                   NewMigration))

-----------------------------------------------------------------------------
(* migrate.py: main.  The command line names a source file, a mapping file   *)
(* and a configuration; ppc is where main is, plog the stage calls made.     *)

\* _load_mapping(mapping_file): the three keys a mapping must have
LoadMapping(mapping_file) ==
  IF {"fields", "source_type", "record_id_field"} \subseteq DOMAIN mapping_file
  THEN [exc |-> "", mapping |-> mapping_file]
  ELSE [exc |-> "ValueError", mapping |-> NoMapping]

\* a main that goes on to the migration whatever the verdict says
AfterValidationIgnoringVerdict(verdict, validate_only) ==
  IF validate_only THEN "exit0" ELSE "migrate"

\* what main does with the verdict: exit 1 when it is not valid, exit 0 in
\* validate-only mode, the migration otherwise
AfterValidation(verdict, validate_only) ==
  IF ~verdict.is_valid THEN "exit1"
  ELSE IF validate_only THEN "exit0"
  ELSE "migrate"

\* source files: two records with distinct identifiers, a repeated
\* identifier, no record, a record without identifier, one record
PipelineSources ==
  { << OD(<<"record_id", "age">>, [record_id |-> P002, age |-> PyInt(40)]) >> } \cup
  { << OD(<<"record_id", "age">>, [record_id |-> P001, age |-> PyInt(40)]),
       OD(<<"record_id", "age">>, [record_id |-> P002, age |-> PyInt(7)]) >>,
    << OD(<<"record_id", "age">>, [record_id |-> P001, age |-> PyInt(40)]),
       OD(<<"record_id", "age">>, [record_id |-> P001, age |-> PyInt(7)]) >>,
    <<>>,
    << OD(<<"age">>, [age |-> PyInt(40)]) >> }

\* mapping files: a complete one, one of a source type map_data does not
\* convert, one that lacks a key
MappingFiles ==
  { [source_type |-> "csv", record_id_field |-> "record_id",
     fields |-> << [source_field |-> "age", target_field |-> "weight"] >>],
    [source_type |-> "json", record_id_field |-> "record_id", fields |-> <<>>],
    [source_type |-> "csv", fields |-> <<>>] }

\* config['validation_rules']: none, a range the mapped weights lie in, a
\* range with a null bound
PipelineRules ==
  { NoRules,
    [NoRules EXCEPT !.numeric_range = <<<<"weight", [min |-> PyInt(30), max |-> PyInt(300)]>>>>],
    [NoRules EXCEPT !.numeric_range = <<<<"weight", [min |-> PyNone]>>>>] }

NoArgs ==
  [validate_only |-> FALSE, secure_mode |-> FALSE, source_ext |-> ".json",
   source |-> <<>>, mapping_file |-> NoMapping, validation_rules |-> NoRules]

PipelineInit ==
  /\ pargs \in [validate_only : BOOLEAN, secure_mode : BOOLEAN,
                source_ext : {".json", ".txt"}, source : PipelineSources,
                mapping_file : MappingFiles, validation_rules : PipelineRules]
  /\ ppc = "init"
  /\ plog = <<>>
  /\ pmig = <<>>

\* the pipeline when the run is about a component alone
PipelineIdle == pargs = NoArgs /\ ppc = "idle" /\ plog = <<>> /\ pmig = <<>>

\* an exception in main's try is logged and ends the run with exit code 1
NextOrFail(exc, next) == IF exc # "" THEN "exit1" ELSE next

\* "Initialize components": the SecurityHandler (no PHI field list given),
\* the DataMapper, which loads the mapping file, and the DataValidator
InitializeComponents ==
  /\ ppc = "init"
  /\ sh' = [sh EXCEPT !["a"] = NewHandler("a", pargs.secure_mode, <<>>)]
  /\ mmap' = LoadMapping(pargs.mapping_file).mapping
  /\ vrules' = pargs.validation_rules
  /\ ppc' = NextOrFail(LoadMapping(pargs.mapping_file).exc, "load")
  /\ UNCHANGED <<vdata, vout, vchecks, scall, scalls, msrc, mout, frameVars, conversionVars, migratorVars, pargs, plog, pmig>>

\* source_data = security.load_and_secure_data(args.source)
StageLoad ==
  /\ ppc = "load"
  /\ scall' = LoadAndSecureResult(sh["a"], "a", pargs.source_ext, pargs.source).call
  /\ sh' = [sh EXCEPT !["a"] =
              LoadAndSecureResult(@, "a", pargs.source_ext, pargs.source).handler]
  /\ scalls' = scalls + 1
  /\ plog' = Append(plog, "load")
  /\ ppc' = NextOrFail(scall'.exc, "map")
  /\ UNCHANGED <<validatorVars, mapperVars, frameVars, conversionVars, migratorVars, pargs, pmig>>

\* mapped_data = mapper.map_data(source_data)
StageMap ==
  /\ ppc = "map"
  /\ msrc' = scall.output
  /\ mout' = <<MapData(mmap, scall.output)>>
  /\ plog' = Append(plog, "map")
  /\ ppc' = NextOrFail(mout'[1].exc, "validate")
  /\ UNCHANGED <<validatorVars, securityVars, mmap, frameVars, conversionVars, migratorVars, pargs, pmig>>

\* the mapped records as the dicts validate reads
MappedData == [i \in 1..Len(mout[1].records) |-> mout[1].records[i].at]

\* validation_results = validator.validate(mapped_data)
StageValidate ==
  /\ ppc = "validate"
  /\ vdata' = MappedData
  /\ \E order \in Orderings(DuplicateIds(MappedData)) :
       vout' = <<Validate(MappedData, vrules, order)>>
  /\ plog' = Append(plog, "validate")
  /\ ppc' = NextOrFail(vout'[1].exc, "report")
  /\ UNCHANGED <<vrules, vchecks, securityVars, mapperVars, frameVars, conversionVars, migratorVars, pargs, pmig>>

\* reporter.report_validation_results(validation_results), which writes a
\* file (written says whether it could), then the two exits
StageReport ==
  /\ ppc = "report"
  /\ plog' = Append(plog, "report")
  /\ \E written \in BOOLEAN :
       ppc' = IF written THEN AfterValidation(vout[1], pargs.validate_only)
              ELSE "exit1"
  /\ UNCHANGED <<validatorVars, securityVars, mapperVars, frameVars, conversionVars, migratorVars, pargs, pmig>>

\* migration_result = migrator.migrate(mapped_data)
StageMigrate ==
  /\ ppc = "migrate"
  /\ \E outcomes \in [1..Len(CreateBatches(vdata, DefaultBatchSize)) -> BOOLEAN] :
       pmig' = <<Migrate(vdata, DefaultBatchSize, outcomes)>>
  /\ plog' = Append(plog, "migrate")
  /\ ppc' = "report_migration"
  /\ UNCHANGED <<validatorVars, securityVars, mapperVars, frameVars, conversionVars, migratorVars, pargs>>

\* reporter.report_migration_results(migration_result) and the two lines
\* logged after it, which read records_processed and success_rate
StageReportMigration ==
  /\ ppc = "report_migration"
  /\ plog' = Append(plog, "report_migration")
  /\ \E written \in BOOLEAN :
       ppc' = IF written /\ "records_processed" \in pmig[1].keys THEN "done"
              ELSE "exit1"
  /\ UNCHANGED <<validatorVars, securityVars, mapperVars, frameVars, conversionVars, migratorVars, pargs, pmig>>

PipelineNext ==
  \/ InitializeComponents
  \/ StageLoad
  \/ StageMap
  \/ StageValidate
  \/ StageReport
  \/ StageMigrate
  \/ StageReportMigration

-----------------------------------------------------------------------------
(* The stages on objects.  A record is a dict, an object a caller and a     *)
(* callee may both hold: heap gives the dict under each reference, held is   *)
(* the list of references a caller hands to _secure_phi_data, map_data and   *)
(* validate, and a call returns references.  A stage could write into a      *)
(* dict it was handed; whether one does is what is modelled here.            *)

\* most calls made on one held list
MaxFrameCalls == 2
\* longest held list
MaxFrameRecords == 2

\* the dicts a list of references names
Deref(objects, refs) == [i \in 1..Len(refs) |-> objects[refs[i]]]

\* secured_record = record: the same dict under another name
SameRecord(objects, ref) == [heap |-> objects, ref |-> ref]

\* secured_record = record.copy(): a new dict with the keys and values of
\* the record
CopyRecord(objects, ref) ==
  [heap |-> Append(objects, objects[ref]), ref |-> Len(objects) + 1]

\* the loop over self.phi_fields, which assigns into secured_record
SecureRecord(key, phi_fields, copied) ==
  [heap |-> [copied.heap EXCEPT ![copied.ref] = SecureFields(key, phi_fields, 1, @)],
   ref |-> copied.ref]

\* for record in data: ... secured_data.append(secured_record)
RECURSIVE SecureLoop(_, _, _, _, _)
SecureLoop(key, phi_fields, data, i, acc) ==
  IF i > Len(data) THEN acc
  ELSE SecureLoop(key, phi_fields, data, i + 1,
         [heap |-> SecureRecord(key, phi_fields, CopyRecord(acc.heap, data[i])).heap,
          output |-> Append(acc.output,
                            SecureRecord(key, phi_fields,
                                         CopyRecord(acc.heap, data[i])).ref)])

\* _secure_phi_data(data) on the dicts data names: the objects after the
\* call, the list data as the call leaves it (no statement changes the list)
\* and the references returned
SecureOnHeap(handler, objects, data, phi_fields) ==
  [exc |-> "",
   heap |-> SecureLoop(handler.key, phi_fields, data, 1,
                       [heap |-> objects, output |-> <<>>]).heap,
   data |-> data,
   output |-> SecureLoop(handler.key, phi_fields, data, 1,
                         [heap |-> objects, output |-> <<>>]).output]

\* map_data(source_data): the frame is built of the values of the dicts, and
\* each mapped record is a new dict (record = {}) that _map_field fills
MapOnHeap(objects, data, mapped) ==
  [exc |-> mapped.exc,
   heap |-> objects \o mapped.records,
   data |-> data,
   output |-> [k \in 1..Len(mapped.records) |-> Len(objects) + k]]

\* validate(data): the checks read the records (get, [], in, keys) and write
\* into results, a dict validate makes
ValidateOnHeap(objects, data, verdict) ==
  [exc |-> verdict.exc, heap |-> objects, data |-> data, output |-> <<>>]

\* the records held: one with a PHI value and a list, one whose date is an
\* int, one without identifier
FrameRecords ==
  { OD(<<"id", "ssn", "tags">>,
       [id |-> P001, ssn |-> Ssn, tags |-> PyList(<< <<"y">>, <<"z">> >>)]),
    OD(<<"id", "ssn", "dob">>, [id |-> P002, ssn |-> Ssn, dob |-> PyInt(2023)]),
    OD(<<"ssn", "n">>, [ssn |-> PyStr(<<>>), n |-> PyInt(3)]) }

FrameMappings ==
  {m \in Mappings : m.source_type = "csv" /\ m.record_id_field = "id"}

FrameRules ==
  [NoRules EXCEPT !.required_fields = <<"id", "ssn">>,
                  !.field_formats = <<<<"dob", "date">>>>]

NoFrameCall ==
  [op |-> "", exc |-> "", before |-> <<>>, data |-> <<>>, output |-> <<>>, calls |-> 0]

FrameInit ==
  /\ \E m \in BOOLEAN, p \in {<<>>, <<"ssn">>} :
       sh = [h \in Handlers |-> IF h = "a" THEN NewHandler(h, m, p)
                                ELSE NewHandler(h, FALSE, <<>>)]
  /\ mmap \in FrameMappings
  /\ vrules = FrameRules
  /\ heap \in ListsUpTo(FrameRecords, MaxFrameRecords)
  /\ held = [i \in 1..Len(heap) |-> i]
  /\ fcall = NoFrameCall
  /\ vdata = <<>> /\ vout = <<>> /\ vchecks = <<>>
  /\ scall = NoCall /\ scalls = 0
  /\ msrc = <<>> /\ mout = <<>>

\* the objects when the run is about a component alone
FrameIdle == heap = <<>> /\ held = <<>> /\ fcall = NoFrameCall

\* what a call leaves: the objects, the held list, and the call made
AfterCall(op, r) ==
  /\ fcall.calls < MaxFrameCalls
  /\ heap' = r.heap
  /\ held' = r.data
  /\ fcall' = [op |-> op, exc |-> r.exc, before |-> heap, data |-> held,
               output |-> r.output, calls |-> fcall.calls + 1]

FrameSecure ==
  /\ AfterCall("_secure_phi_data",
               SecureOnHeap(sh["a"], heap, held,
                            SecurePhiData(sh["a"], Deref(heap, held)).phi_fields))
  /\ sh' = [sh EXCEPT !["a"] = AfterSecuring(@, SecurePhiData(@, Deref(heap, held)))]
  /\ UNCHANGED <<scall, scalls>>
  /\ UNCHANGED <<validatorVars, mapperVars, pipelineVars, migratorVars, conversionVars>>

FrameMap ==
  /\ AfterCall("map_data", MapOnHeap(heap, held, MapData(mmap, Deref(heap, held))))
  /\ UNCHANGED <<validatorVars, securityVars, mapperVars, pipelineVars, migratorVars, conversionVars>>

FrameValidate ==
  /\ \E order \in Orderings(DuplicateIds([i \in 1..Len(held) |-> heap[held[i]].at])) :
       AfterCall("validate",
                 ValidateOnHeap(heap, held,
                                Validate([i \in 1..Len(held) |-> heap[held[i]].at],
                                         vrules, order)))
  /\ UNCHANGED <<validatorVars, securityVars, mapperVars, pipelineVars, migratorVars, conversionVars>>

FrameNext ==
  \/ FrameSecure
  \/ FrameMap
  \/ FrameValidate

-----------------------------------------------------------------------------
(* The conversions called alone: _format_date, _format_checkbox,             *)
(* _format_radio and _format_dropdown of the mapper and _redact_phi of the   *)
(* security handler, each on one value.  cin is the call, cout what it did.  *)

\* most items of a list a cell holds
MaxListItems == 2
\* longest str _redact_phi is called on
MaxRedactLen == 7

\* options whose codes are labels of other options
ScoreOptions == << <<<<"1">>, <<"2">>>>, <<<<"2">>, <<"1">>>> >>

OptionSets == {SexOptions, TagOptions, ScoreOptions}

\* what a cell of a choice field holds: strs naming labels, codes and
\* neither, lists of such, a number, None and nan
ChoiceItems == {Male, Female, <<"1">>, <<"2">>, <<"x">>, <<"a">>, <<"z">>}

ChoiceStrs ==
  ChoiceItems \cup
    {<<>>, <<"x", ",", "y">>, <<"x", ",", " ", "b">>, <<"z", ",", "y">>,
     <<"1", ",", "z">>, <<" ", "a", " ">>}

ChoiceValues ==
  {PyStr(s) : s \in ChoiceStrs}
    \cup {PyList(l) : l \in ListsUpTo(ChoiceItems, MaxListItems) \ {<<>>}}
    \cup {PyInt(1), PyInt(0), PyNone, PyNaN}

\* what a cell of a date field holds
DateStrs ==
  { <<>>,
    <<"2", "0", "2", "3", "-", "0", "1", "-", "1", "5">>,
    <<"2", "0", "2", "3", "-", "1", "-", "5">>,
    <<"2", "0", "2", "3", "-", "0", "2", "-", "3", "0">>,
    <<"0", "1", "/", "1", "5", "/", "2", "0", "2", "3">>,
    <<"1", "/", "5", "/", "2", "0", "2", "3">>,
    <<"1", "3", "/", "0", "1", "/", "2", "0", "2", "3">>,
    <<"1", "5", "-", "J", "a", "n", "-", "2", "0", "2", "3">>,
    <<"5", "-", "f", "e", "b", "-", "2", "0", "2", "4">>,
    <<"2", "9", "-", "F", "e", "b", "-", "2", "0", "2", "3">>,
    <<"J", "a", "n", " ", "5">>,
    <<"2", "0", "2", "3">> }

DateValues ==
  {PyStr(s) : s \in DateStrs}
    \cup {PyList(l) : l \in ListsUpTo({<<"2", "0", "2", "3">>, <<"x">>}, MaxListItems) \ {<<>>}}
    \cup {PyInt(2023), PyNone, PyNaN}

\* the formats a date rule gives ("" when it gives none)
DateFormats == {"", "%Y-%m-%d", "%m/%d/%Y", "%d-%b-%Y"}

\* the characters of the strs handed to _redact_phi
RedactChars == {"1", "@", ".", "-"}

ConversionCalls ==
  {[op |-> op, value |-> v, options |-> o, date_format |-> ""] :
     op \in {"_format_checkbox", "_format_radio", "_format_dropdown"},
     v \in ChoiceValues, o \in OptionSets}
    \cup {[op |-> "_format_date", value |-> v, options |-> <<>>, date_format |-> f] :
            v \in DateValues, f \in DateFormats}
    \cup {[op |-> "_redact_phi", value |-> PyStr(s), options |-> <<>>, date_format |-> ""] :
            s \in ListsUpTo(RedactChars, MaxRedactLen)}

NoConversion == [op |-> "", value |-> PyNone, options |-> <<>>, date_format |-> ""]

ConversionInit == cin \in ConversionCalls /\ cout = <<>>

\* the conversions when the run is about a component
ConversionIdle == cin = NoConversion /\ cout = <<>>

\* a conversion called on the value: cout holds what it did
Convert(op, r) ==
  /\ cin.op = op
  /\ cout = <<>>
  /\ cout' = <<r>>
  /\ UNCHANGED <<cin, validatorVars, securityVars, mapperVars, pipelineVars, migratorVars, frameVars>>

CallFormatDate == Convert("_format_date", FormatDate(cin.value, cin.date_format))

CallFormatCheckbox == Convert("_format_checkbox", FormatCheckbox(cin.value, cin.options))

CallFormatRadio == Convert("_format_radio", FormatRadio(cin.value, cin.options))

CallFormatDropdown == Convert("_format_dropdown", FormatDropdown(cin.value, cin.options))

CallRedactPhi == Convert("_redact_phi", Returns(RedactPhi(cin.value)))

ConversionNext ==
  \/ CallFormatDate
  \/ CallFormatCheckbox
  \/ CallFormatRadio
  \/ CallFormatDropdown
  \/ CallRedactPhi

-----------------------------------------------------------------------------
(* migrate, batch by batch.  gpc is where the call is: before it ("call"),   *)
(* in the loop over the batches ("loop"), returned.  What comes of a batch   *)
(* is not the program's: _send_batch_to_redcap returns a success result or   *)
(* a failure result (it catches the exceptions of the request), and the      *)
(* loop has a handler for an exception that leaves it all the same.          *)

\* longest record list handed to migrate
MaxMigrateRecords == 4
\* largest batch size of a migrator
MaxBatchSize == 3

\* what comes of _send_batch_to_redcap(batch, ...)
BatchOutcomes == {"success", "failure", "raised"}

\* the mapped records uploaded: with and without identifier
MigrateRecords ==
  { [record_id |-> P001, weight |-> PyInt(40)],
    [weight |-> PyInt(7)] }

NoMigrateCall == [data |-> <<>>, batch_size |-> DefaultBatchSize]

MigratorInit ==
  /\ gcall \in [data : ListsUpTo(MigrateRecords, MaxMigrateRecords),
                batch_size : 1..MaxBatchSize]
  /\ gpc = "call"
  /\ gbatches = <<>>
  /\ gi = 0
  /\ gresults = NewMigration
  /\ gsent = <<>>

\* the migrator when the run is about another component
MigratorIdle ==
  /\ gcall = NoMigrateCall
  /\ gpc = "idle"
  /\ gbatches = <<>>
  /\ gi = 0
  /\ gresults = NewMigration
  /\ gsent = <<>>

\* migrate(data) up to the loop: no data returns at once
MigrateStart ==
  /\ gpc = "call"
  /\ IF gcall.data = <<>>
     THEN /\ gresults' = Migrate(<<>>, gcall.batch_size, <<>>)
          /\ gpc' = "returned"
          /\ UNCHANGED gbatches
     ELSE /\ gresults' = NewMigration
          /\ gbatches' = CreateBatches(gcall.data, gcall.batch_size)
          /\ gpc' = "loop"
  /\ UNCHANGED <<gcall, gi, gsent>>
  /\ UNCHANGED <<validatorVars, securityVars, mapperVars, pipelineVars, frameVars,
                 conversionVars>>

\* one pass of the loop: the next batch is counted, sent, and counted as a
\* success or a failure
SendBatch ==
  /\ gpc = "loop"
  /\ gi < Len(gbatches)
  /\ \E outcome \in BatchOutcomes :
       /\ gsent' = Append(gsent, [batch |-> gbatches[gi + 1], outcome |-> outcome])
       /\ gresults' = MigrateBatch(gresults, gbatches[gi + 1], outcome = "success")
  /\ gi' = gi + 1
  /\ UNCHANGED <<gcall, gpc, gbatches>>
  /\ UNCHANGED <<validatorVars, securityVars, mapperVars, pipelineVars, frameVars,
                 conversionVars>>

\* after the last batch: the final statistics, and the return
MigrateReturn ==
  /\ gpc = "loop"
  /\ gi = Len(gbatches)
  /\ gresults' = FinalStatistics(gresults)
  /\ gpc' = "returned"
  /\ UNCHANGED <<gcall, gbatches, gi, gsent>>
  /\ UNCHANGED <<validatorVars, securityVars, mapperVars, pipelineVars, frameVars,
                 conversionVars>>

MigratorNext ==
  \/ MigrateStart
  \/ SendBatch
  \/ MigrateReturn

-----------------------------------------------------------------------------
(* The specifications: one per component *)

InitValidator == ValidatorInit /\ SecurityIdle /\ MapperIdle /\ PipelineIdle /\ FrameIdle /\ ConversionIdle /\ MigratorIdle
SpecValidator == InitValidator /\ [][ValidatorNext]_vars

InitRanges == RangesInit /\ SecurityIdle /\ MapperIdle /\ PipelineIdle /\ FrameIdle /\ ConversionIdle /\ MigratorIdle
SpecRanges == InitRanges /\ [][ValidatorNext]_vars

InitChecks == ChecksInit /\ SecurityIdle /\ MapperIdle /\ PipelineIdle /\ FrameIdle /\ ConversionIdle /\ MigratorIdle
SpecChecks == InitChecks /\ [][ChecksNext]_vars

InitSecurity == SecurityInit /\ ValidatorIdle /\ MapperIdle /\ PipelineIdle /\ FrameIdle /\ ConversionIdle /\ MigratorIdle
SpecSecurity == InitSecurity /\ [][SecurityNext]_vars

InitMapper == MapperInit /\ ValidatorIdle /\ SecurityIdle /\ PipelineIdle /\ FrameIdle /\ ConversionIdle /\ MigratorIdle
SpecMapper == InitMapper /\ [][MapperNext]_vars

InitPipeline == PipelineInit /\ ValidatorIdle /\ SecurityIdle /\ MapperIdle /\ FrameIdle /\ ConversionIdle /\ MigratorIdle
SpecPipeline == InitPipeline /\ [][PipelineNext]_vars

InitFrame == FrameInit /\ PipelineIdle /\ ConversionIdle /\ MigratorIdle
SpecFrame == InitFrame /\ [][FrameNext]_vars

InitConversions ==
  ConversionInit /\ ValidatorIdle /\ SecurityIdle /\ MapperIdle /\ PipelineIdle /\ FrameIdle
    /\ MigratorIdle
SpecConversions == InitConversions /\ [][ConversionNext]_vars

InitMigrator ==
  MigratorInit /\ ValidatorIdle /\ SecurityIdle /\ MapperIdle /\ PipelineIdle /\ FrameIdle
    /\ ConversionIdle
SpecMigrator == InitMigrator /\ [][MigratorNext]_vars

\* migrate is one call on one thread: a statement that can run does run
SpecMigratorRuns == SpecMigrator /\ WF_vars(MigratorNext)

-----------------------------------------------------------------------------
(* Properties of the validator *)

\* the verdict of the call
Verdict == vout[1]

\* C1: for a non-empty record set, the verdict validate returns has
\* is_valid = true exactly when it holds no global error and no per-record
\* error; warnings (global or per-record) play no part.
C1_ValidIffNoErrors ==
  (Returned /\ vdata # <<>>) =>
    (Verdict.is_valid <=>
       /\ Verdict.errors = <<>>
       /\ \A k \in 1..Len(Verdict.record_issues) :
            Verdict.record_issues[k].errors = <<>>)

\* a verdict that carries warnings and is valid all the same
C1_Witness ==
  /\ Returned /\ vdata # <<>>
  /\ Verdict.is_valid
  /\ \E k \in 1..Len(Verdict.record_issues) :
       Verdict.record_issues[k].warnings # <<>>

\* C5: validate never raises, whatever the value types of the fields and
\* whatever the rule entries (a missing, null or unparseable bound included).
C5_ValidateNeverRaises == vout # <<>> => Verdict.exc = ""

\* how many records of the set carry this record_id
Occurrences(id) ==
  Cardinality({i \in 1..Len(vdata) :
                 "record_id" \in DOMAIN vdata[i] /\ vdata[i]["record_id"] = id})

DuplicateErrors(id) ==
  Cardinality({k \in 1..Len(Verdict.errors) :
                 Verdict.errors[k].kind = "duplicate_id" /\ Verdict.errors[k].value = id})

\* C9: the verdict holds exactly one global duplicate error for each
\* record_id that two or more records carry, none for an id that occurs once
\* (or not at all), and is_valid is false when some id is repeated.
C9_OneErrorPerDuplicateId ==
  Returned =>
    /\ \A id \in {P001, P002} \cup {Verdict.errors[k].value : k \in 1..Len(Verdict.errors)} :
         DuplicateErrors(id) = IF Occurrences(id) >= 2 THEN 1 ELSE 0
    /\ (\E id \in {P001, P002} : Occurrences(id) >= 2) => ~Verdict.is_valid

\* a record_id carried by three records, reported once
C9_Witness ==
  /\ Returned
  /\ Occurrences(P001) = 3
  /\ DuplicateErrors(P001) = 1

\* C10: for an empty record set validate returns is_valid = false with exactly
\* one global error, no data provided, and no per-record issue.
C10_EmptyInputVerdict ==
  (vout # <<>> /\ vdata = <<>>) =>
    /\ Verdict.exc = ""
    /\ ~Verdict.is_valid
    /\ Len(Verdict.errors) = 1
    /\ Verdict.errors[1].kind = "no_data"
    /\ Verdict.record_issues = <<>>

C10_Witness == vout # <<>> /\ vdata = <<>> /\ vrules.required_fields # <<>>

-----------------------------------------------------------------------------
(* Properties of the range checks, checked under SpecRanges *)

\* the errors the verdict holds for the i-th record
ErrorsOfRecord(i) ==
  UNION {{Verdict.record_issues[k].errors[e] :
            e \in 1..Len(Verdict.record_issues[k].errors)} :
           k \in {k \in 1..Len(Verdict.record_issues) :
                    Verdict.record_issues[k].key = RecordId(vdata[i], i - 1)}}

\* the i-th record has an error of one of these kinds on the field's value
HasError(i, field, kinds) ==
  \E m \in ErrorsOfRecord(i) :
    m.kind \in kinds /\ m.field = field /\ m.value = vdata[i][field]

\* C11: under a date-range rule that leaves min and/or max unspecified the
\* bound is 1900-01-01 / 2100-12-31; a parseable date outside the inclusive
\* range gives a per-record error on the field and no raised fault, a date
\* inside the range, bounds included, gives no date-range error.
C11_DefaultDateBounds ==
  (vout # <<>> /\ vdata # <<>>) =>
    \A j \in 1..Len(vrules.date_range) :
      LET field == vrules.date_range[j][1]
          rule == vrules.date_range[j][2]
          lo == IF "min" \in DOMAIN rule THEN StrptimeISO(rule["min"]).date ELSE 19000101
          hi == IF "max" \in DOMAIN rule THEN StrptimeISO(rule["max"]).date ELSE 21001231
      IN ("min" \notin DOMAIN rule \/ "max" \notin DOMAIN rule) =>
           \A i \in 1..Len(vdata) :
             (field \in DOMAIN vdata[i] /\ StrptimeISO(vdata[i][field]).exc = "") =>
               IF lo <= StrptimeISO(vdata[i][field]).date
                  /\ StrptimeISO(vdata[i][field]).date <= hi
               THEN ~HasError(i, field, {"date_before_min", "date_after_max",
                                         "date_unparseable"})
               ELSE /\ Verdict.exc = ""
                    /\ HasError(i, field, {"date_before_min", "date_after_max"})

\* C12: under a numeric-range rule with min and max, a record that has the
\* field gets a per-record numeric-range error on it exactly when the value
\* is unparseable as a number, below min or above max; the value zero
\* (numeric 0 or "0") is no exception.
C12_NumericRangeErrors ==
  (vout # <<>> /\ vdata # <<>>) =>
    \A j \in 1..Len(vrules.numeric_range) :
      LET field == vrules.numeric_range[j][1]
          rule == vrules.numeric_range[j][2]
      IN {"min", "max"} \subseteq DOMAIN rule =>
           \A i \in 1..Len(vdata) :
             field \in DOMAIN vdata[i] =>
               (HasError(i, field, {"numeric_unparseable", "below_min", "above_max"})
                  <=> \/ FloatOf(vdata[i][field]).exc # ""
                      \/ FloatLt(FloatOf(vdata[i][field]), FloatOf(rule["min"]))
                      \/ FloatLt(FloatOf(rule["max"]), FloatOf(vdata[i][field])))

-----------------------------------------------------------------------------
(* Properties of the checks run in any order, checked under SpecChecks *)

\* a list as the multiset of its items
BagOfSeq(s) ==
  [m \in {s[i] : i \in 1..Len(s)} |-> Cardinality({i \in 1..Len(s) : s[i] = m})]

\* record_issues as the dict it is: two dicts are equal whatever the order
\* of their keys
IssuesDict(record_issues) ==
  [key \in {record_issues[k].key : k \in 1..Len(record_issues)} |->
     LET entry == CHOOSE e \in {record_issues[k] : k \in 1..Len(record_issues)} :
                    e.key = key
     IN [errors |-> entry.errors, warnings |-> entry.warnings]]

\* the same with every list taken as the multiset of its messages
IssuesBags(record_issues) ==
  [key \in DOMAIN IssuesDict(record_issues) |->
     [errors |-> BagOfSeq(IssuesDict(record_issues)[key].errors),
      warnings |-> BagOfSeq(IssuesDict(record_issues)[key].warnings)]]

\* two outcomes of validate are equal: the same exception, or equal dicts
SameVerdict(a, b) ==
  /\ a.exc = b.exc
  /\ a.is_valid = b.is_valid
  /\ a.errors = b.errors
  /\ a.warnings = b.warnings
  /\ IssuesDict(a.record_issues) = IssuesDict(b.record_issues)
  /\ a.stats = b.stats

\* both raised, or both returned verdicts that hold the same issues, the
\* order of the messages within a list apart
SameIssues(a, b) ==
  /\ (a.exc = "") = (b.exc = "")
  /\ a.exc = "" =>
       /\ a.is_valid = b.is_valid
       /\ BagOfSeq(a.errors) = BagOfSeq(b.errors)
       /\ BagOfSeq(a.warnings) = BagOfSeq(b.warnings)
       /\ IssuesBags(a.record_issues) = IssuesBags(b.record_issues)
       /\ a.stats = b.stats

IsPrefix(s, t) == Len(s) <= Len(t) /\ SubSeq(t, 1, Len(s)) = s

\* results b is results a with issues appended: no message of a is gone,
\* changed or moved
Extends(a, b) ==
  /\ IsPrefix(a.errors, b.errors)
  /\ IsPrefix(a.warnings, b.warnings)
  /\ Len(a.record_issues) <= Len(b.record_issues)
  /\ \A k \in 1..Len(a.record_issues) :
       /\ b.record_issues[k].key = a.record_issues[k].key
       /\ IsPrefix(a.record_issues[k].errors, b.record_issues[k].errors)
       /\ IsPrefix(a.record_issues[k].warnings, b.record_issues[k].warnings)

\* every check run so far only appended to what it was given
ChecksOnlyAppend ==
  \A k \in 1..Len(vchecks) :
    Extends(IF k = 1 THEN EmptyResults ELSE vchecks[k - 1].results,
            vchecks[k].results)

\* C16: running the five checks in any order produces the same verdict as
\* validate does, and each check only appends issues, never removing or
\* changing one another check added.
C16_SameVerdictInAnyOrder ==
  /\ ChecksOnlyAppend
  /\ vout # <<>> =>
       \E order \in Orderings(DuplicateIds(vdata)) :
         SameVerdict(vout[1], Validate(vdata, vrules, order))

\* C16 as amended: in any order the checks give the outcome of validate up
\* to the order of the messages within a list: they raise exactly when
\* validate raises, and otherwise the verdict has the same is_valid, the same
\* counts and, in the global lists and for each record, the same errors and
\* warnings as multisets; each check only appends issues.
C16_SameIssuesInAnyOrder ==
  /\ ChecksOnlyAppend
  /\ vout # <<>> =>
       \E order \in Orderings(DuplicateIds(vdata)) :
         SameIssues(vout[1], Validate(vdata, vrules, order))

\* the checks ran in another order than validate's and left a record with
\* errors of two checks, in another order than validate leaves them
C16_Witness ==
  /\ vout # <<>>
  /\ vout[1].exc = ""
  /\ Len(vchecks) = Len(ChecksOfValidate)
  /\ [k \in 1..Len(vchecks) |-> vchecks[k].check] # ChecksOfValidate
  /\ \E k \in 1..Len(vout[1].record_issues) : Len(vout[1].record_issues[k].errors) >= 2
  /\ \A order \in Orderings(DuplicateIds(vdata)) :
       ~SameVerdict(vout[1], Validate(vdata, vrules, order))

-----------------------------------------------------------------------------
(* Properties of single checks, checked under SpecChecks on the step that   *)
(* ran the check: what the check added to the results it was handed.         *)

\* the results a step was handed
Before(k) == IF k = 1 THEN EmptyResults ELSE vchecks[k - 1].results

\* the entry of a key in record_issues, empty lists where it has none
EntryOf(results, key) ==
  IF key \in DOMAIN IssuesDict(results.record_issues)
  THEN IssuesDict(results.record_issues)[key]
  ELSE [errors |-> <<>>, warnings |-> <<>>]

\* the messages step k added under a key
AddedErrors(k, key) ==
  SubSeq(EntryOf(vchecks[k].results, key).errors,
         Len(EntryOf(Before(k), key).errors) + 1,
         Len(EntryOf(vchecks[k].results, key).errors))

AddedWarnings(k, key) ==
  SubSeq(EntryOf(vchecks[k].results, key).warnings,
         Len(EntryOf(Before(k), key).warnings) + 1,
         Len(EntryOf(vchecks[k].results, key).warnings))

\* the keys record_issues can have: one per record
KeysOfRecords == {RecordId(vdata[i], i - 1) : i \in 1..Len(vdata)}

\* the records filed under a key
RecordsOf(key) == {i \in 1..Len(vdata) : RecordId(vdata[i], i - 1) = key}

\* configured-required minus present-and-truthy
MissingRequired(i) ==
  {vrules.required_fields[j] : j \in 1..Len(vrules.required_fields)} \
    {f \in DOMAIN vdata[i] : Truthy(vdata[i][f])}

\* C19: under a non-empty required-field set the required-fields check adds
\* to a record exactly one error if at least one required field is absent or
\* falsy in it, listing exactly the set configured-required minus
\* present-and-truthy, and no error if none is missing; never one error per
\* missing field.  (Records that share a record_id share the entry the
\* errors are filed under: it gets one error for each of them.)
C19_OneErrorListsAllMissing ==
  \A k \in 1..Len(vchecks) :
    (vchecks[k].check = "required_fields" /\ vrules.required_fields # <<>>) =>
      /\ vchecks[k].results.exc = ""
      /\ vchecks[k].results.errors = Before(k).errors
      /\ vchecks[k].results.warnings = Before(k).warnings
      /\ DOMAIN IssuesDict(vchecks[k].results.record_issues) \subseteq
           DOMAIN IssuesDict(Before(k).record_issues) \cup KeysOfRecords
      /\ \A key \in KeysOfRecords :
           /\ AddedWarnings(k, key) = <<>>
           /\ \A e \in 1..Len(AddedErrors(k, key)) :
                /\ AddedErrors(k, key)[e].kind = "missing_required"
                /\ Len(AddedErrors(k, key)[e].fields) =
                     Cardinality({AddedErrors(k, key)[e].fields[x] :
                                    x \in 1..Len(AddedErrors(k, key)[e].fields)})
           /\ BagOfSeq([e \in 1..Len(AddedErrors(k, key)) |->
                          {AddedErrors(k, key)[e].fields[x] :
                             x \in 1..Len(AddedErrors(k, key)[e].fields)}])
                = [S \in {MissingRequired(i) :
                            i \in {r \in RecordsOf(key) : MissingRequired(r) # {}}} |->
                     Cardinality({i \in RecordsOf(key) : MissingRequired(i) = S})]

\* the check ran on a record that lacks two required fields and on one that
\* lacks none, after another check had filed an error
C19_Witness ==
  \E k \in 2..Len(vchecks) :
    /\ vchecks[k].check = "required_fields"
    /\ \E i \in 1..Len(vdata) : Cardinality(MissingRequired(i)) = 2
    /\ \E i \in 1..Len(vdata) : MissingRequired(i) = {}
    /\ \E j \in 1..Len(Before(k).record_issues) : Before(k).record_issues[j].errors # <<>>

\* the fields other than the identifier that some record of the set has and
\* this record has not
Drift(i) ==
  {f \in UNION {DOMAIN vdata[r] : r \in 1..Len(vdata)} :
     f # "record_id" /\ f \notin DOMAIN vdata[i]}

\* the global errors step k added
AddedGlobalErrors(k) ==
  SubSeq(vchecks[k].results.errors, Len(Before(k).errors) + 1,
         Len(vchecks[k].results.errors))

\* C20: the cross-record consistency check puts a warning on a record if and
\* only if some field other than the identifier is present in at least one
\* record of the set and absent from that record (one warning, naming those
\* fields); a record that misses the identifier alone gets none; field
\* presence adds no error: the check files no error under any record, and
\* its global errors are those of the repeated identifiers.
C20_DriftWarnsOnly ==
  \A k \in 1..Len(vchecks) :
    vchecks[k].check = "data_consistency" =>
      /\ vchecks[k].results.exc = ""
      /\ vchecks[k].results.warnings = Before(k).warnings
      /\ Len(AddedGlobalErrors(k)) = Cardinality(DuplicateIds(vdata))
      /\ \A e \in 1..Len(AddedGlobalErrors(k)) :
           AddedGlobalErrors(k)[e].kind = "duplicate_id"
      /\ DOMAIN IssuesDict(vchecks[k].results.record_issues) \subseteq
           DOMAIN IssuesDict(Before(k).record_issues) \cup KeysOfRecords
      /\ \A key \in KeysOfRecords :
           /\ AddedErrors(k, key) = <<>>
           /\ BagOfSeq([e \in 1..Len(AddedWarnings(k, key)) |->
                          AddedWarnings(k, key)[e].fieldset])
                = [S \in {Drift(i) : i \in {r \in RecordsOf(key) : Drift(r) # {}}} |->
                     Cardinality({i \in RecordsOf(key) : Drift(i) = S})]

\* the check ran on a set in which one record has the identifier and the
\* other the same fields without it: neither got a warning
C20_Witness ==
  \E k \in 1..Len(vchecks) :
    /\ vchecks[k].check = "data_consistency"
    /\ \E i, r \in 1..Len(vdata) :
         /\ "record_id" \notin DOMAIN vdata[i]
         /\ "record_id" \in DOMAIN vdata[r]
         /\ Drift(i) = {}
         /\ AddedWarnings(k, RecordId(vdata[i], i - 1)) = <<>>
         /\ AddedWarnings(k, RecordId(vdata[r], r - 1)) = <<>>

-----------------------------------------------------------------------------
(* Properties of the stages on objects, checked under SpecFrame *)

\* C17: _secure_phi_data, map_data and validate each leave their input
\* untouched, whether they return or raise: after the call the held list
\* names the same dicts in the same order, each dict has the keys, in their
\* order, and the values it had before, and every record returned is a dict
\* that did not exist before the call.
C17_InputUntouched ==
  fcall.op # "" =>
    /\ held = fcall.data
    /\ \A i \in 1..Len(held) : heap[held[i]] = fcall.before[held[i]]
    /\ \A k \in 1..Len(fcall.output) : fcall.output[k] > Len(fcall.before)

\* a securing call that redacted a value in the record it returned
C17_Witness ==
  /\ fcall.op = "_secure_phi_data"
  /\ Len(fcall.output) = 2
  /\ heap[fcall.output[1]] # heap[held[1]]

-----------------------------------------------------------------------------
(* Properties of the classifier *)

\* the last call was a securing call that returned
Secured ==
  scall.op \in {"load_and_secure_data", "_secure_phi_data"} /\ scall.exc = ""

\* the PHI fields of the call that hold a truthy value in its i-th record
TruthyPhi(i) ==
  {scall.phi[j] : j \in {k \in 1..Len(scall.phi) :
                           /\ ODHas(scall.input[i], scall.phi[k])
                           /\ Truthy(scall.input[i].at[scall.phi[k]])}}

\* C3: in plain and in protected mode, every record the securing operation
\* returns has each PHI field that held a truthy value replaced by its
\* redaction mask; a sibling <field>_encrypted is added in protected mode only.
C3_PhiRedactedInBothModes ==
  Secured =>
    \A i \in 1..Len(scall.input) :
      /\ \A f \in TruthyPhi(i) :
           scall.output[i].at[f] = RedactPhi(PyStrOf(scall.input[i].at[f]))
      /\ ~sh[scall.h].secure_mode =>
           DOMAIN scall.output[i].at = DOMAIN scall.input[i].at

\* C6: on an instance built without a PHI field list, field-name inference
\* runs at most once, and every later securing call uses the list the first
\* call resolved.
C6_InferenceAtMostOnce ==
  \A h \in Handlers :
    ~sh[h].given =>
      /\ sh[h].detect_runs <= 1
      /\ sh[h].first_phi # <<>> => sh[h].phi_fields = sh[h].first_phi[1]

\* C7: in protected mode, for every record and every PHI field with a truthy
\* value, the secured record has <field>_encrypted and decrypt_field of it on
\* the same instance returns the string form of the original value.
C7_EncryptedSiblingDecrypts ==
  (Secured /\ sh[scall.h].secure_mode) =>
    \A i \in 1..Len(scall.input) :
      \A f \in TruthyPhi(i) :
        /\ ODHas(scall.output[i], f \o "_encrypted")
        /\ DecryptField(sh[scall.h], scall.output[i].at[f \o "_encrypted"])
             = [exc |-> "", value |-> PyStrOf(scall.input[i].at[f])]

\* C8: decrypt_field on an instance built in plain mode raises for every
\* input and returns nothing; on an instance in protected mode it raises for
\* a ciphertext another instance produced.
C8_DecryptNeedsOwnCipher ==
  scall.op = "decrypt_field" =>
    /\ ~sh[scall.h].secure_mode => (scall.exc # "" /\ scall.value = PyNone)
    /\ (sh[scall.h].secure_mode /\ scall.arg.ty = "tok" /\ scall.by # scall.h) =>
         (scall.exc # "" /\ scall.value = PyNone)

\* an instance in protected mode is handed the ciphertext another one made
C8_Witness ==
  /\ scall.op = "decrypt_field"
  /\ sh[scall.h].secure_mode
  /\ scall.arg.ty = "tok"
  /\ scall.by # scall.h
  /\ scall.exc = "InvalidToken"

-----------------------------------------------------------------------------
(* Properties of the mapper, checked under SpecMapper *)

\* C4: map_data drops every source record that lacks the configured
\* record-identifier field, also when other records of the set have it: the
\* mapped records are as many as the source records that have the field.
C4_RecordWithoutIdDropped ==
  (mout # <<>> /\ mout[1].exc = "") =>
    Len(mout[1].records) =
      Cardinality({i \in 1..Len(msrc) : ODHas(msrc[i], mmap.record_id_field)})

\* C13: for a rule set with the required top-level keys, map_data returns
\* for every source record set and never raises: an unparseable date, a
\* checkbox input given as a string, a sequence or a scalar, an unmatched
\* radio or dropdown value or a failing formula in one record does not abort
\* the batch.  (Stated for the rule sets of the source type map_data
\* converts.)
C13_MapDataNeverRaises ==
  (mout # <<>> /\ mmap.source_type = "csv") => mout[1].exc = ""

\* C18: for every source record and every field rule whose source_field is
\* no field of that record, the mapped record has no entry for the rule's
\* target_field, also when other records of the set carry the source field.
\* (Stated where map_data mapped every record, the i-th from the i-th, for a
\* record that has the identifier field and a target no other rule of the
\* mapping writes.)
C18_AbsentSourceSkipped ==
  (mout # <<>> /\ mout[1].exc = "" /\ Len(mout[1].records) = Len(msrc)) =>
    \A i \in 1..Len(msrc) :
      \A j \in 1..Len(mmap.fields) :
        (/\ {"source_field", "target_field"} \subseteq DOMAIN mmap.fields[j]
         /\ mmap.fields[j].target_field # "record_id"
         /\ ODHas(msrc[i], mmap.record_id_field)
         /\ ~ODHas(msrc[i], mmap.fields[j].source_field)
         /\ \A l \in 1..Len(mmap.fields) :
              (l # j /\ "target_field" \in DOMAIN mmap.fields[l]) =>
                mmap.fields[l].target_field # mmap.fields[j].target_field) =>
          ~ODHas(mout[1].records[i], mmap.fields[j].target_field)

-----------------------------------------------------------------------------
(* Properties of the pipeline, checked under SpecPipeline *)

\* the mapped record is the image of this source record: its record_id is
\* the str of the record's identifier and every untyped rule whose source
\* field the record has copied the value (as the float the frame made of it,
\* where the column is one of floats)
IsImage(record, source) ==
  /\ ODHas(source, mmap.record_id_field) =>
       /\ ODHas(record, "record_id")
       /\ record.at["record_id"] \in
            {PyStrOf(source.at[mmap.record_id_field]),
             PyStrOf(AsFloat(source.at[mmap.record_id_field]))}
  /\ \A j \in 1..Len(mmap.fields) :
       (/\ {"source_field", "target_field"} \subseteq DOMAIN mmap.fields[j]
        /\ "field_type" \notin DOMAIN mmap.fields[j]
        /\ ODHas(source, mmap.fields[j].source_field)
        /\ \A l \in (j + 1)..Len(mmap.fields) :
             "target_field" \in DOMAIN mmap.fields[l] =>
               mmap.fields[l].target_field # mmap.fields[j].target_field) =>
         /\ ODHas(record, mmap.fields[j].target_field)
         /\ record.at[mmap.fields[j].target_field] \in
              {source.at[mmap.fields[j].source_field],
               AsFloat(source.at[mmap.fields[j].source_field])}

\* the secured record is derived from this record: it has the record's keys
\* in their order before any key added, and every field that is no PHI field
\* of the call holds the record's value
IsSecuredFrom(secured, record) ==
  /\ Len(secured.keys) >= Len(record.keys)
  /\ SubSeq(secured.keys, 1, Len(record.keys)) = record.keys
  /\ \A k \in DOMAIN record.at :
       (\A j \in 1..Len(scall.phi) : scall.phi[j] # k) =>
         secured.at[k] = record.at[k]

\* C14: within one invocation the records map_data returns are, in order,
\* the images of a subsequence of the input records (dropped, never
\* reordered or duplicated), and the records the securing operation returns
\* are as many as its input, the i-th derived from the i-th input.
C14_OrderPreserved ==
  /\ (mout # <<>> /\ mout[1].exc = "") =>
       \E f \in [1..Len(mout[1].records) -> 1..Len(msrc)] :
         /\ \A k, l \in DOMAIN f : k < l => f[k] < f[l]
         /\ \A k \in DOMAIN f : IsImage(mout[1].records[k], msrc[f[k]])
  /\ (scall.op = "load_and_secure_data" /\ scall.exc = "") =>
       /\ Len(scall.output) = Len(scall.input)
       /\ \A i \in 1..Len(scall.input) :
            IsSecuredFrom(scall.output[i], scall.input[i])

\* two records secured in protected mode and mapped to two different records
C14_Witness ==
  /\ sh["a"].secure_mode
  /\ Len(scall.input) = 2
  /\ scall.output # scall.input
  /\ mout # <<>>
  /\ mout[1].exc = ""
  /\ Len(mout[1].records) = 2
  /\ mout[1].records[1] # mout[1].records[2]

\* C2: the stages of a run happen in the order load/secure, map, validate,
\* upload, and migrate is called only after validate returned a verdict with
\* is_valid true, never on an invalid verdict and never in validate-only
\* mode.
C2_UploadGatedByVerdict ==
  /\ plog = SubSeq(<<"load", "map", "validate", "report", "migrate", "report_migration">>,
                   1, Len(plog))
  /\ (\E i \in 1..Len(plog) : plog[i] = "migrate") =>
       /\ vout # <<>>
       /\ vout[1].exc = ""
       /\ vout[1].is_valid
       /\ ~pargs.validate_only

\* a run that reached the upload
C2_Witness ==
  /\ pmig # <<>>
  /\ plog = <<"load", "map", "validate", "report", "migrate">>
  /\ vout[1].is_valid

-----------------------------------------------------------------------------
(* Properties of the conversions, checked under SpecConversions *)

\* the call returned or raised
Converted(op) == cin.op = op /\ cout # <<>>

\* the elements of a checkbox input: the parts of a comma-delimited str,
\* the items of a sequence, a scalar itself
InputElements(value) ==
  CASE value.ty = "str" ->
         {PyStr(Strip(Split(value.s, ",")[i])) : i \in 1..Len(Split(value.s, ","))}
    [] value.ty = "list" -> {PyStr(ListItems(value)[i]) : i \in 1..value.n}
    [] OTHER -> {value}

\* some element of the input equals the option's code or its label
Selects(value, option) ==
  \E e \in InputElements(value) : e = PyStr(option[1]) \/ e = PyStr(option[2])

\* C21: _format_checkbox, on a comma-delimited str, a sequence or a scalar,
\* raises nothing and returns exactly one sub-field per option code of the
\* rule, "1" if some element of the input equals the option's code or label
\* and "0" otherwise; elements that match no option are ignored.
C21_OneSubFieldPerOption ==
  Converted("_format_checkbox") =>
    /\ cout[1].exc = ""
    /\ cout[1].value =
         PyDict([i \in 1..Len(cin.options) |->
                   <<cin.options[i][1],
                     IF Selects(cin.value, cin.options[i]) THEN "1" ELSE "0">>])

\* the codes of the options whose label equals the value, and whether some
\* option's code equals it (a str alone equals a label or a code)
CodesByLabel(value, options) ==
  {options[i][1] : i \in {j \in 1..Len(options) : value = PyStr(options[j][2])}}

IsCode(value, options) == \E i \in 1..Len(options) : value = PyStr(options[i][1])

\* C22: _format_radio and _format_dropdown raise nothing and return the
\* code of an option whose label equals the value if there is one; only if
\* no label equals it, the option code that equals the value; the empty
\* string if neither does.
C22_LabelFirstThenCode ==
  (Converted("_format_radio") \/ Converted("_format_dropdown")) =>
    /\ cout[1].exc = ""
    /\ IF CodesByLabel(cin.value, cin.options) # {}
       THEN \E c \in CodesByLabel(cin.value, cin.options) : cout[1].value = PyStr(c)
       ELSE IF IsCode(cin.value, cin.options) THEN cout[1].value = cin.value
       ELSE cout[1].value = PyStr(<<>>)

\* the value parses under the format
Parses(value, fmt) == TryStrptime(value, fmt).ok

\* the YYYY-MM-DD normalisation of the value under the format
Normalised(value, fmt) == Strftime(TryStrptime(value, fmt))

\* C23: _format_date raises nothing on a value (a cell that is not None or
\* NaN).  Given no format, it returns the YYYY-MM-DD normalisation of the
\* value under the first of ISO, MM/DD/YYYY and day-abbreviated month-year
\* that parses it, and the value unchanged if none does; given a format that
\* does not parse the value, it returns the value unchanged.
C23_FirstParsingFormat ==
  (Converted("_format_date") /\ cin.value.ty \notin {"none", "nan"}) =>
    /\ cout[1].exc = ""
    /\ cin.date_format = "" =>
         cout[1].value =
           IF Parses(cin.value, "%Y-%m-%d") THEN Normalised(cin.value, "%Y-%m-%d")
           ELSE IF Parses(cin.value, "%m/%d/%Y") THEN Normalised(cin.value, "%m/%d/%Y")
           ELSE IF Parses(cin.value, "%d-%b-%Y") THEN Normalised(cin.value, "%d-%b-%Y")
           ELSE cin.value
    /\ (cin.date_format # "" /\ ~Parses(cin.value, cin.date_format)) =>
         cout[1].value = cin.value

\* the characters with k kept at each end and the rest masked
KeepEnds(cs, k) ==
  SubSeq(cs, 1, k) \o Stars(Len(cs) - 2 * k) \o SubSeq(cs, Len(cs) - k + 1, Len(cs))

\* '@' present with a '.' in the domain part, the text after the first '@'
\* (up to the next one, if any)
EmailShaped(cs) == Contains(cs, "@") /\ Contains(Split(cs, "@")[2], ".")

LocalPart(cs) == Split(cs, "@")[1]
DomainPart(cs) == Split(cs, "@")[2]

\* digits, '-' and parentheses alone
DigitsAndPunctuation(cs) == \A i \in 1..Len(cs) : cs[i] \in Digits \cup {"-", "(", ")"}

DigitsOf(cs) == SelectSeq(cs, LAMBDA c : c \in Digits)

\* the value redacted and its redaction, as characters
Redacted == cin.value.s
Redaction == cout[1].value.s

\* C24 as stated: an email-shaped value keeps the first and last character of
\* the local part and the domain; a digit/punctuation-only value of length
\* > 4 keeps its first two and last two digits, the rest masked; any other
\* value longer than 6 characters keeps its first two and last two
\* characters; a fallback value of length <= 6 is masked entirely; an empty
\* value is returned unchanged.
C24_StatedPolicy ==
  Converted("_redact_phi") =>
    IF Redacted = <<>> THEN Redaction = <<>>
    ELSE IF EmailShaped(Redacted)
    THEN /\ Len(Redaction) = Len(LocalPart(Redacted)) + 1 + Len(DomainPart(Redacted))
         /\ LocalPart(Redacted) # <<>> =>
              /\ Redaction[1] = LocalPart(Redacted)[1]
              /\ Redaction[Len(LocalPart(Redacted))] =
                   LocalPart(Redacted)[Len(LocalPart(Redacted))]
              /\ \A i \in 2..(Len(LocalPart(Redacted)) - 1) : Redaction[i] = "*"
         /\ SubSeq(Redaction, Len(LocalPart(Redacted)) + 1, Len(Redaction)) =
              <<"@">> \o DomainPart(Redacted)
    ELSE IF DigitsAndPunctuation(Redacted) /\ Len(Redacted) > 4
    THEN Redaction = KeepEnds(DigitsOf(Redacted), 2)
    ELSE IF Len(Redacted) > 6 THEN Redaction = KeepEnds(Redacted, 2)
    ELSE Redaction = Stars(Len(Redaction))

\* C24, as the code has it: an empty value is returned unchanged; an
\* email-shaped value keeps the domain and, of a local part of more than 2
\* characters, the first and the last, a shorter local part being masked
\* entirely; a digit/punctuation-only value is reduced to its digits, of
\* which the first two and last two are kept if there are more than 4 and
\* none otherwise; any other value keeps its first two and last two
\* characters if it is longer than 6 and is masked entirely otherwise.
C24_RedactionPolicy ==
  Converted("_redact_phi") =>
    /\ cout[1].exc = ""
    /\ Redaction =
         IF Redacted = <<>> THEN <<>>
         ELSE IF EmailShaped(Redacted)
         THEN (IF Len(LocalPart(Redacted)) > 2 THEN KeepEnds(LocalPart(Redacted), 1)
               ELSE Stars(Len(LocalPart(Redacted))))
                \o <<"@">> \o DomainPart(Redacted)
         ELSE IF DigitsAndPunctuation(Redacted)
         THEN (IF Len(DigitsOf(Redacted)) > 4 THEN KeepEnds(DigitsOf(Redacted), 2)
               ELSE Stars(Len(DigitsOf(Redacted))))
         ELSE IF Len(Redacted) > 6 THEN KeepEnds(Redacted, 2)
         ELSE Stars(Len(Redacted))

\* an email with a local part of two characters, masked entirely, and a
\* value of digits and hyphens longer than 4 with three digits
C24_Witness ==
  /\ Converted("_redact_phi")
  /\ \/ /\ Redacted = <<"1", ".", "@", "1", ".", "1">>
        /\ Redaction = <<"*", "*", "@", "1", ".", "1">>
     \/ /\ Redacted = <<"1", "-", "1", "-", "1">>
        /\ Redaction = <<"*", "*", "*">>

\* C25: in a run in protected mode, where the PHI fields are inferred,
\* securing and then mapping keeps identifiers distinct: of source records
\* that all have the identifier field, two with different identifier values
\* are mapped to records with different record_id values.
C25_IdentifiersStayDistinct ==
  (/\ sh["a"].secure_mode
   /\ scall.op = "load_and_secure_data"
   /\ scall.exc = ""
   /\ mout # <<>>
   /\ mout[1].exc = ""
   /\ \A i \in 1..Len(scall.input) : ODHas(scall.input[i], mmap.record_id_field)) =>
    /\ Len(mout[1].records) = Len(scall.input)
    /\ \A i, j \in 1..Len(scall.input) :
         scall.input[i].at[mmap.record_id_field] # scall.input[j].at[mmap.record_id_field] =>
           mout[1].records[i].at["record_id"] # mout[1].records[j].at["record_id"]

-----------------------------------------------------------------------------
(* Properties of the per-record issue map, checked under SpecValidator *)

\* the i-th record of the input has at least one issue: one of the checks of
\* the record alone files one, or the record lacks a field other than the
\* identifier that another record of the set has
HasIssue(i) ==
  \/ Validate(<<vdata[i]>>, vrules, <<>>).record_issues # <<>>
  \/ Drift(i) # {}

\* C26: each entry of the per-record issue map holds the issues of one
\* record: two records at different positions that both have issues are
\* filed under different keys, so records_with_issues is the number of input
\* records with at least one issue, also when records share a record_id or
\* lack one.
C26_OneEntryPerRecord ==
  (Returned /\ vdata # <<>>) =>
    /\ \A i, j \in 1..Len(vdata) :
         (i # j /\ HasIssue(i) /\ HasIssue(j)) =>
           RecordId(vdata[i], i - 1) # RecordId(vdata[j], j - 1)
    /\ Verdict.stats.records_with_issues =
         Cardinality({i \in 1..Len(vdata) : HasIssue(i)})

-----------------------------------------------------------------------------
(* Properties of the migrator, checked under SpecMigrator *)

\* C27: for a non-empty record list and every pattern of batch outcomes, the
\* upload result satisfies after each batch and at return
\* records_processed = records_success + records_failed,
\* batches_processed = batches_success + batches_failed and
\* number of failed_records entries = records_failed; at return
\* records_processed is the number of input records and success is true
\* exactly when batches_failed = 0.
C27_CountsAddUp ==
  (gcall.data # <<>> /\ gpc \in {"loop", "returned"}) =>
    /\ gresults.records_processed = gresults.records_success + gresults.records_failed
    /\ gresults.batches_processed = gresults.batches_success + gresults.batches_failed
    /\ Len(gresults.failed_records) = gresults.records_failed
    /\ gpc = "returned" =>
         /\ gresults.records_processed = Len(gcall.data)
         /\ gresults.success <=> gresults.batches_failed = 0

\* a returned upload of three batches: one sent, one answered with a
\* failure, one that raised
C27_Witness ==
  /\ gpc = "returned"
  /\ Len(gsent) = 3
  /\ {gsent[k].outcome : k \in 1..3} = BatchOutcomes
  /\ gresults.batches_failed = 2
  /\ ~gresults.success

\* the records handed to _send_batch_to_redcap so far, in the order sent
RECURSIVE SentRecords(_)
SentRecords(k) ==
  IF k = 0 THEN <<>> ELSE SentRecords(k - 1) \o gsent[k].batch

\* what was sent so far is the input list up to some record: every record
\* at most once, in input order, nothing twice or out of turn; every batch
\* has batch_size records but for the one that ends the list, which has what
\* is left; after any outcome the next batch is the one that follows
SentInOrder ==
  /\ Len(SentRecords(Len(gsent))) <= Len(gcall.data)
  /\ SentRecords(Len(gsent)) = SubSeq(gcall.data, 1, Len(SentRecords(Len(gsent))))
  /\ \A k \in 1..Len(gsent) :
       /\ Len(gsent[k].batch) \in 1..gcall.batch_size
       /\ Len(gsent[k].batch) < gcall.batch_size =>
            Len(SentRecords(k)) = Len(gcall.data)
       /\ gsent[k].batch = SubSeq(gcall.data, Len(SentRecords(k - 1)) + 1,
                                  Len(SentRecords(k)))
  /\ gpc = "returned" => SentRecords(Len(gsent)) = gcall.data

\* migrate returned with every record sent
Uploaded == gpc = "returned" /\ SentRecords(Len(gsent)) = gcall.data

\* C28: for every non-empty record list, batch size >= 1 and pattern of
\* batch outcomes, migrate sends every input record exactly once, in input
\* order, in contiguous batches of at most batch_size records, the last
\* alone being possibly smaller; a failed batch is never sent again and never
\* keeps the later batches from being sent: the call ends with all sent.
C28_EveryRecordSentOnce == [](gcall.data # <<>> => SentInOrder) /\ <>Uploaded

\* a returned upload in which a failed batch of two records was followed by
\* a smaller last batch, which was sent
C28_Witness ==
  /\ gpc = "returned"
  /\ Len(gsent) = 2
  /\ gsent[1].outcome \in {"failure", "raised"}
  /\ Len(gsent[1].batch) = 2
  /\ gsent[2].outcome = "success"
  /\ Len(gsent[2].batch) = 1
  /\ gsent[2].batch[1] # gsent[1].batch[2]
  /\ gresults.records_failed = 2

====
